---- MODULE Spec2Model ----
(***************************************************************************)
(* Host CPU identification (lib/Support/Host.cpp): the x86 decoder built   *)
(* on CPUID / XGETBV, and the physical core counter built on               *)
(* /proc/cpuinfo with its process-wide cache.                              *)
(*                                                                         *)
(* A 32-bit unsigned register is a word: the set of the positions (0..31)  *)
(* of its one bits.  Bit 31 and values such as 0x80000001 are then exact.  *)
(***************************************************************************)
EXTENDS Integers, Sequences, FiniteSets, TLC

VARIABLES
  cpu,        \* the hardware: what CPUID and XGETBV answer on this host
  name,       \* result of the last getHostCPUName call ("" before any call)
  nameQ,      \* hardware queries issued by that call
  FeatureMap, \* the caller's StringMap<bool> Features handed to getHostCPUFeatures
  ret,        \* return value of the last getHostCPUFeatures call ("none" before)
  featQ,      \* hardware queries issued by that call
  fm,         \* input and output of the last detectX86FamilyModel call
  file,       \* /proc/cpuinfo: [ok |-> read succeeds, text |-> its content]
  NumCores,   \* the function-local static of getHostNumPhysicalCores
  cores,      \* bookkeeping of the calls of getHostNumPhysicalCores
  thr,        \* the threads calling getHostNumPhysicalCores: where each one is
  avail       \* input and output of the last getAvailableFeatures call

vars == <<cpu, name, nameQ, FeatureMap, ret, featQ, fm, file, NumCores, cores,
          thr, avail>>

----------------------------------------------------------------------------
(* Words *)

RECURSIVE Field(_, _, _)
\* (w >> lo) & (2^width - 1), as a number
Field(w, lo, width) ==
  IF width = 0 THEN 0
  ELSE (IF lo \in w THEN 1 ELSE 0) + 2 * Field(w, lo + 1, width - 1)

\* (w >> i) & 1
Bit(w, i) == IF i \in w THEN 1 ELSE 0

\* the word of a number below 2^31
WordOf(n) == {i \in 0..30 : (n \div (2^i)) % 2 = 1}

\* a & b
And(a, b) == a \cap b

\* unsigned a >= b
GEq(a, b) ==
  LET d == (a \ b) \cup (b \ a)
  IN  d = {} \/ (CHOOSE i \in d : \A j \in d : j <= i) \in a

----------------------------------------------------------------------------
(* enum VendorSignatures *)
SIG_INTEL == 1970169159
SIG_AMD == 1752462657

(* enum ProcessorTypes *)
INTEL_BONNELL == 1
INTEL_CORE2 == 2
INTEL_COREI7 == 3
AMDFAM10H == 4
AMDFAM15H == 5
INTEL_SILVERMONT == 6
INTEL_KNL == 7
AMD_BTVER1 == 8
AMD_BTVER2 == 9
AMDFAM17H == 10
INTEL_i386 == 11
INTEL_i486 == 12
INTEL_PENTIUM == 13
INTEL_PENTIUM_PRO == 14
INTEL_PENTIUM_II == 15
INTEL_PENTIUM_III == 16
INTEL_PENTIUM_IV == 17
INTEL_PENTIUM_M == 18
INTEL_CORE_DUO == 19
INTEL_X86_64 == 20
INTEL_NOCONA == 21
INTEL_PRESCOTT == 22
AMD_i486 == 23
AMDPENTIUM == 24
AMDATHLON == 25
INTEL_GOLDMONT == 26
CPU_TYPE_MAX == 27

(* enum ProcessorSubtypes *)
INTEL_COREI7_NEHALEM == 1
INTEL_COREI7_WESTMERE == 2
INTEL_COREI7_SANDYBRIDGE == 3
AMDFAM10H_BARCELONA == 4
AMDFAM10H_SHANGHAI == 5
AMDFAM10H_ISTANBUL == 6
AMDFAM15H_BDVER1 == 7
AMDFAM15H_BDVER2 == 8
AMDFAM15H_BDVER3 == 9
AMDFAM15H_BDVER4 == 10
AMDFAM17H_ZNVER1 == 11
INTEL_COREI7_IVYBRIDGE == 12
INTEL_COREI7_HASWELL == 13
INTEL_COREI7_BROADWELL == 14
INTEL_COREI7_SKYLAKE == 15
INTEL_COREI7_SKYLAKE_AVX512 == 16
INTEL_PENTIUM_MMX == 17
INTEL_CORE2_65 == 18
INTEL_CORE2_45 == 19
AMDPENTIUM_K6 == 20
AMDPENTIUM_K62 == 21
AMDPENTIUM_K63 == 22
AMDPENTIUM_GEODE == 23
AMDATHLON_CLASSIC == 24
AMDATHLON_XP == 25
AMDATHLON_K8 == 26
AMDATHLON_K8SSE3 == 27
CPU_SUBTYPE_MAX == 28

(* enum ProcessorFeatures *)
FEATURE_CMOV == 0
FEATURE_MMX == 1
FEATURE_POPCNT == 2
FEATURE_SSE == 3
FEATURE_SSE2 == 4
FEATURE_SSE3 == 5
FEATURE_SSSE3 == 6
FEATURE_SSE4_1 == 7
FEATURE_SSE4_2 == 8
FEATURE_AVX == 9
FEATURE_AVX2 == 10
FEATURE_SSE4_A == 11
FEATURE_FMA4 == 12
FEATURE_XOP == 13
FEATURE_FMA == 14
FEATURE_AVX512F == 15
FEATURE_BMI == 16
FEATURE_BMI2 == 17
FEATURE_AES == 18
FEATURE_PCLMUL == 19
FEATURE_AVX512VL == 20
FEATURE_AVX512BW == 21
FEATURE_AVX512DQ == 22
FEATURE_AVX512CD == 23
FEATURE_AVX512ER == 24
FEATURE_AVX512PF == 25
FEATURE_AVX512VBMI == 26
FEATURE_AVX512IFMA == 27
FEATURE_AVX5124VNNIW == 28
FEATURE_AVX5124FMAPS == 29
FEATURE_AVX512VPOPCNTDQ == 30
FEATURE_MOVBE == 32
FEATURE_ADX == 33
FEATURE_EM64T == 34
FEATURE_CLFLUSHOPT == 35
FEATURE_SHA == 36

\* the result of a call that runs into llvm_unreachable("Unexpected subtype!")
Unreachable == "llvm_unreachable"

----------------------------------------------------------------------------
(* detectX86FamilyModel *)

detectX86FamilyModel_NoShift(EAX) ==
  LET Family0 == Field(EAX, 8, 4)
      Model0  == Field(EAX, 4, 4)
  IN  IF Family0 \in {6, 15}
      THEN [Family |-> IF Family0 = 15 THEN Family0 + Field(EAX, 20, 8) ELSE Family0,
            Model  |-> Model0 + Field(EAX, 16, 4)]
      ELSE [Family |-> Family0, Model |-> Model0]

detectX86FamilyModel_AlwaysExtend(EAX) ==
  [Family |-> Field(EAX, 8, 4) + Field(EAX, 20, 8),
   Model  |-> Field(EAX, 4, 4) + Field(EAX, 16, 4) * 16]

detectX86FamilyModel(EAX) ==
  LET Family0 == Field(EAX, 8, 4)   \* Bits 8 - 11
      Model0  == Field(EAX, 4, 4)   \* Bits 4 - 7
  IN  IF Family0 \in {6, 15}
      THEN [Family |-> IF Family0 = 15
                       THEN Family0 + Field(EAX, 20, 8)   \* Bits 20 - 27
                       ELSE Family0,
            Model  |-> Model0 + Field(EAX, 16, 4) * 16]   \* Bits 16 - 19
      ELSE [Family |-> Family0, Model |-> Model0]

----------------------------------------------------------------------------
(* getIntelProcessorTypeAndSubtype.  Type and Subtype are the values the    *)
(* caller's variables hold on entry; the result is what they hold on exit.  *)

IntelFamily6Guess_AVX2First(Features, Features2, Type, Subtype) ==
  IF FEATURE_AVX512F \in Features THEN
       IF FEATURE_AVX512VL \in Features
       THEN [Type |-> INTEL_COREI7, Subtype |-> INTEL_COREI7_SKYLAKE_AVX512]
       ELSE [Type |-> INTEL_KNL, Subtype |-> Subtype]
  ELSE IF (FEATURE_CLFLUSHOPT - 32) \in Features2 THEN
       IF (FEATURE_SHA - 32) \in Features2
       THEN [Type |-> INTEL_GOLDMONT, Subtype |-> Subtype]
       ELSE [Type |-> INTEL_COREI7, Subtype |-> INTEL_COREI7_SKYLAKE]
  ELSE IF FEATURE_AVX2 \in Features THEN
       [Type |-> INTEL_COREI7, Subtype |-> INTEL_COREI7_HASWELL]
  ELSE IF (FEATURE_ADX - 32) \in Features2 THEN
       [Type |-> INTEL_COREI7, Subtype |-> INTEL_COREI7_BROADWELL]
  ELSE IF FEATURE_AVX \in Features THEN
       [Type |-> INTEL_COREI7, Subtype |-> INTEL_COREI7_SANDYBRIDGE]
  ELSE IF FEATURE_SSE4_2 \in Features THEN
       IF (FEATURE_MOVBE - 32) \in Features2
       THEN [Type |-> INTEL_SILVERMONT, Subtype |-> Subtype]
       ELSE [Type |-> INTEL_COREI7, Subtype |-> INTEL_COREI7_NEHALEM]
  ELSE IF FEATURE_SSE4_1 \in Features THEN
       [Type |-> INTEL_CORE2, Subtype |-> INTEL_CORE2_45]
  ELSE IF FEATURE_SSSE3 \in Features THEN
       IF (FEATURE_MOVBE - 32) \in Features2
       THEN [Type |-> INTEL_BONNELL, Subtype |-> Subtype]
       ELSE [Type |-> INTEL_CORE2, Subtype |-> INTEL_CORE2_65]
  ELSE IF (FEATURE_EM64T - 32) \in Features2 THEN
       [Type |-> INTEL_X86_64, Subtype |-> Subtype]
  ELSE IF FEATURE_SSE2 \in Features THEN
       [Type |-> INTEL_PENTIUM_M, Subtype |-> Subtype]
  ELSE IF FEATURE_SSE \in Features THEN
       [Type |-> INTEL_PENTIUM_III, Subtype |-> Subtype]
  ELSE IF FEATURE_MMX \in Features THEN
       [Type |-> INTEL_PENTIUM_II, Subtype |-> Subtype]
  ELSE [Type |-> INTEL_PENTIUM_PRO, Subtype |-> Subtype]

\* default: of the family-6 switch ("Unknown family 6 CPU, try to guess")
IntelFamily6Guess(Features, Features2, Type, Subtype) ==
  IF FEATURE_AVX512F \in Features THEN
       IF FEATURE_AVX512VL \in Features
       THEN [Type |-> INTEL_COREI7, Subtype |-> INTEL_COREI7_SKYLAKE_AVX512]
       ELSE [Type |-> INTEL_KNL, Subtype |-> Subtype]
  ELSE IF (FEATURE_CLFLUSHOPT - 32) \in Features2 THEN
       IF (FEATURE_SHA - 32) \in Features2
       THEN [Type |-> INTEL_GOLDMONT, Subtype |-> Subtype]
       ELSE [Type |-> INTEL_COREI7, Subtype |-> INTEL_COREI7_SKYLAKE]
  ELSE IF (FEATURE_ADX - 32) \in Features2 THEN
       [Type |-> INTEL_COREI7, Subtype |-> INTEL_COREI7_BROADWELL]
  ELSE IF FEATURE_AVX2 \in Features THEN
       [Type |-> INTEL_COREI7, Subtype |-> INTEL_COREI7_HASWELL]
  ELSE IF FEATURE_AVX \in Features THEN
       [Type |-> INTEL_COREI7, Subtype |-> INTEL_COREI7_SANDYBRIDGE]
  ELSE IF FEATURE_SSE4_2 \in Features THEN
       IF (FEATURE_MOVBE - 32) \in Features2
       THEN [Type |-> INTEL_SILVERMONT, Subtype |-> Subtype]
       ELSE [Type |-> INTEL_COREI7, Subtype |-> INTEL_COREI7_NEHALEM]
  ELSE IF FEATURE_SSE4_1 \in Features THEN
       [Type |-> INTEL_CORE2, Subtype |-> INTEL_CORE2_45]
  ELSE IF FEATURE_SSSE3 \in Features THEN
       IF (FEATURE_MOVBE - 32) \in Features2
       THEN [Type |-> INTEL_BONNELL, Subtype |-> Subtype]
       ELSE [Type |-> INTEL_CORE2, Subtype |-> INTEL_CORE2_65]
  ELSE IF (FEATURE_EM64T - 32) \in Features2 THEN
       [Type |-> INTEL_X86_64, Subtype |-> Subtype]
  ELSE IF FEATURE_SSE2 \in Features THEN
       [Type |-> INTEL_PENTIUM_M, Subtype |-> Subtype]
  ELSE IF FEATURE_SSE \in Features THEN
       [Type |-> INTEL_PENTIUM_III, Subtype |-> Subtype]
  ELSE IF FEATURE_MMX \in Features THEN
       [Type |-> INTEL_PENTIUM_II, Subtype |-> Subtype]
  ELSE [Type |-> INTEL_PENTIUM_PRO, Subtype |-> Subtype]

IntelFamily6_GuessOnly(Model, Features, Features2, Type, Subtype) ==
  IntelFamily6Guess(Features, Features2, Type, Subtype)

\* case 6: of the family switch
IntelFamily6(Model, Features, Features2, Type, Subtype) ==
  CASE Model = 1 -> [Type |-> INTEL_PENTIUM_PRO, Subtype |-> Subtype]
    [] Model \in {3, 5, 6} -> [Type |-> INTEL_PENTIUM_II, Subtype |-> Subtype]
    [] Model \in {7, 8, 10, 11} -> [Type |-> INTEL_PENTIUM_III, Subtype |-> Subtype]
    [] Model \in {9, 13, 21} -> [Type |-> INTEL_PENTIUM_M, Subtype |-> Subtype]
    [] Model = 14 -> [Type |-> INTEL_CORE_DUO, Subtype |-> Subtype]
    [] Model \in {15, 22} -> [Type |-> INTEL_CORE2, Subtype |-> INTEL_CORE2_65]
    [] Model \in {23, 29} -> [Type |-> INTEL_CORE2, Subtype |-> INTEL_CORE2_45]
    [] Model \in {26, 30, 31, 46} ->
         [Type |-> INTEL_COREI7, Subtype |-> INTEL_COREI7_NEHALEM]
    [] Model \in {37, 44, 47} ->
         [Type |-> INTEL_COREI7, Subtype |-> INTEL_COREI7_WESTMERE]
    [] Model \in {42, 45} ->
         [Type |-> INTEL_COREI7, Subtype |-> INTEL_COREI7_SANDYBRIDGE]
    [] Model \in {58, 62} ->
         [Type |-> INTEL_COREI7, Subtype |-> INTEL_COREI7_IVYBRIDGE]
    [] Model \in {60, 63, 69, 70} ->
         [Type |-> INTEL_COREI7, Subtype |-> INTEL_COREI7_HASWELL]
    [] Model \in {61, 71, 79, 86} ->
         [Type |-> INTEL_COREI7, Subtype |-> INTEL_COREI7_BROADWELL]
    [] Model \in {78, 94, 142, 158} ->
         [Type |-> INTEL_COREI7, Subtype |-> INTEL_COREI7_SKYLAKE]
    [] Model = 85 ->
         [Type |-> INTEL_COREI7, Subtype |-> INTEL_COREI7_SKYLAKE_AVX512]
    [] Model \in {28, 38, 39, 53, 54} -> [Type |-> INTEL_BONNELL, Subtype |-> Subtype]
    [] Model \in {55, 74, 77, 90, 93, 76} ->
         [Type |-> INTEL_SILVERMONT, Subtype |-> Subtype]
    [] Model \in {92, 95} -> [Type |-> INTEL_GOLDMONT, Subtype |-> Subtype]
    [] Model = 87 -> [Type |-> INTEL_KNL, Subtype |-> Subtype]
    [] OTHER -> IntelFamily6Guess(Features, Features2, Type, Subtype)

\* case 15: of the family switch
IntelFamily15(Model, Features2, Type, Subtype) ==
  LET EM64T == (FEATURE_EM64T - 32) \in Features2
  IN  CASE Model \in {0, 1, 2} ->
             [Type |-> IF EM64T THEN INTEL_X86_64 ELSE INTEL_PENTIUM_IV,
              Subtype |-> Subtype]
        [] Model \in {3, 4, 6} ->
             [Type |-> IF EM64T THEN INTEL_NOCONA ELSE INTEL_PRESCOTT,
              Subtype |-> Subtype]
        [] OTHER ->
             [Type |-> IF EM64T THEN INTEL_X86_64 ELSE INTEL_PENTIUM_IV,
              Subtype |-> Subtype]

getIntelProcessorTypeAndSubtype(Family, Model, Brand_id, Features, Features2, Type, Subtype) ==
  IF Brand_id # 0 THEN [Type |-> Type, Subtype |-> Subtype]
  ELSE CASE Family = 3 -> [Type |-> INTEL_i386, Subtype |-> Subtype]
         [] Family = 4 -> [Type |-> INTEL_i486, Subtype |-> Subtype]
         [] Family = 5 ->
              [Type |-> INTEL_PENTIUM,
               Subtype |-> IF Model = 4 THEN INTEL_PENTIUM_MMX ELSE Subtype]
         [] Family = 6 -> IntelFamily6(Model, Features, Features2, Type, Subtype)
         [] Family = 15 -> IntelFamily15(Model, Features2, Type, Subtype)
         [] OTHER -> [Type |-> Type, Subtype |-> Subtype]   \* "generic"

----------------------------------------------------------------------------
(* getAMDProcessorTypeAndSubtype *)

getAMDProcessorTypeAndSubtype(Family, Model, Features, Type, Subtype) ==
  CASE Family = 4 -> [Type |-> AMD_i486, Subtype |-> Subtype]
    [] Family = 5 ->
         [Type |-> AMDPENTIUM,
          Subtype |-> CASE Model \in {6, 7} -> AMDPENTIUM_K6
                        [] Model = 8 -> AMDPENTIUM_K62
                        [] Model \in {9, 13} -> AMDPENTIUM_K63
                        [] Model = 10 -> AMDPENTIUM_GEODE
                        [] OTHER -> Subtype]
    [] Family = 6 ->
         [Type |-> AMDATHLON,
          Subtype |-> IF FEATURE_SSE \in Features THEN AMDATHLON_XP
                      ELSE AMDATHLON_CLASSIC]
    [] Family = 15 ->
         [Type |-> AMDATHLON,
          Subtype |-> IF FEATURE_SSE3 \in Features THEN AMDATHLON_K8SSE3
                      ELSE AMDATHLON_K8]
    [] Family = 16 ->
         [Type |-> AMDFAM10H,
          Subtype |-> CASE Model = 2 -> AMDFAM10H_BARCELONA
                        [] Model = 4 -> AMDFAM10H_SHANGHAI
                        [] Model = 8 -> AMDFAM10H_ISTANBUL
                        [] OTHER -> Subtype]
    [] Family = 20 -> [Type |-> AMD_BTVER1, Subtype |-> Subtype]
    [] Family = 21 ->
         [Type |-> AMDFAM15H,
          Subtype |-> IF Model >= 96 /\ Model <= 127 THEN AMDFAM15H_BDVER4
                      ELSE IF Model >= 48 /\ Model <= 63 THEN AMDFAM15H_BDVER3
                      ELSE IF Model >= 16 /\ Model <= 31 THEN AMDFAM15H_BDVER2
                      ELSE IF Model <= 15 THEN AMDFAM15H_BDVER1
                      ELSE Subtype]
    [] Family = 22 -> [Type |-> AMD_BTVER2, Subtype |-> Subtype]
    [] Family = 23 -> [Type |-> AMDFAM17H, Subtype |-> AMDFAM17H_ZNVER1]
    [] OTHER -> [Type |-> Type, Subtype |-> Subtype]   \* "generic"

----------------------------------------------------------------------------
(* The raw CPU query.  hw is the hardware record:                          *)
(*   idSupported  isCpuIdSupported() (the i386 EFLAGS.ID check)            *)
(*   cpuid        getX86CpuIDAndInfo[Ex] can issue CPUID (returns false)   *)
(*   MaxLeaf, Vendor   EAX and EBX of leaf 0                               *)
(*   L1           EAX, EBX, ECX, EDX of leaf 1                             *)
(*   xgetbv       getX86XCR0 can issue XGETBV (returns false)              *)
(*   XCR0         EAX of XGETBV                                            *)
(*   L7           EBX, ECX, EDX of leaf 7 subleaf 0                        *)
(*   MaxExt       EAX of leaf 0x80000000                                   *)
(*   X1           ECX, EDX of leaf 0x80000001                              *)
(*   X8           EBX of leaf 0x80000008                                   *)
(*   LD           EAX of leaf 0xd subleaf 1                                *)
(* A query is logged by the name of the leaf it asks for.                  *)

isCpuIdSupported(hw) == hw.idSupported

\* 1 << bit, when cond holds
Flag(cond, bit) == IF cond THEN {bit} ELSE {}

\* a call logged when cond holds
Call(cond, q) == IF cond THEN {q} ELSE {}

\* the constants the code compares registers with, as words
Hex1 == {0}
Hex6 == {1, 2}
Hex7 == {0, 1, 2}
HexD == {0, 2, 3}
HexE0 == {5, 6, 7}
Hex80000001 == {31, 0}
Hex80000008 == {31, 3}
SigIntel == WordOf(SIG_INTEL)
SigAMD == WordOf(SIG_AMD)

----------------------------------------------------------------------------
(* getAvailableFeatures: the two-word feature bitmask of getHostCPUName *)

AVXBits_26_27 == {26, 27}

\* const unsigned AVXBits = (1 << 27) | (1 << 28);
AVXBits == {27, 28}

getAvailableFeatures(hw, ECX, EDX, MaxLeaf) ==
  LET AskXCR0 == And(ECX, AVXBits) = AVXBits
      HasAVX == AskXCR0 /\ hw.xgetbv /\ And(hw.XCR0, Hex6) = Hex6
      HasAVX512Save == HasAVX /\ And(hw.XCR0, HexE0) = HexE0
      AskLeaf7 == GEq(MaxLeaf, Hex7)
      HasLeaf7 == AskLeaf7 /\ hw.cpuid
      EBX7 == hw.L7.EBX
      ECX7 == hw.L7.ECX
      EDX7 == hw.L7.EDX
      AskExtLeaf1 == GEq(hw.MaxExt, Hex80000001)
      HasExtLeaf1 == AskExtLeaf1 /\ hw.cpuid
      ECXx == hw.X1.ECX
      EDXx == hw.X1.EDX
  IN  [Features |->
              Flag(Bit(EDX, 15) = 1, FEATURE_CMOV)
         \cup Flag(Bit(EDX, 23) = 1, FEATURE_MMX)
         \cup Flag(Bit(EDX, 25) = 1, FEATURE_SSE)
         \cup Flag(Bit(EDX, 26) = 1, FEATURE_SSE2)
         \cup Flag(Bit(ECX, 0) = 1, FEATURE_SSE3)
         \cup Flag(Bit(ECX, 1) = 1, FEATURE_PCLMUL)
         \cup Flag(Bit(ECX, 9) = 1, FEATURE_SSSE3)
         \cup Flag(Bit(ECX, 12) = 1, FEATURE_FMA)
         \cup Flag(Bit(ECX, 19) = 1, FEATURE_SSE4_1)
         \cup Flag(Bit(ECX, 20) = 1, FEATURE_SSE4_2)
         \cup Flag(Bit(ECX, 23) = 1, FEATURE_POPCNT)
         \cup Flag(Bit(ECX, 25) = 1, FEATURE_AES)
         \cup Flag(HasAVX, FEATURE_AVX)
         \cup Flag(HasLeaf7 /\ Bit(EBX7, 3) = 1, FEATURE_BMI)
         \cup Flag(HasLeaf7 /\ Bit(EBX7, 5) = 1 /\ HasAVX, FEATURE_AVX2)
         \cup Flag(HasLeaf7 /\ Bit(EBX7, 9) = 1, FEATURE_BMI2)
         \cup Flag(HasLeaf7 /\ Bit(EBX7, 16) = 1 /\ HasAVX512Save, FEATURE_AVX512F)
         \cup Flag(HasLeaf7 /\ Bit(EBX7, 17) = 1 /\ HasAVX512Save, FEATURE_AVX512DQ)
         \cup Flag(HasLeaf7 /\ Bit(EBX7, 21) = 1 /\ HasAVX512Save, FEATURE_AVX512IFMA)
         \cup Flag(HasLeaf7 /\ Bit(EBX7, 26) = 1 /\ HasAVX512Save, FEATURE_AVX512PF)
         \cup Flag(HasLeaf7 /\ Bit(EBX7, 27) = 1 /\ HasAVX512Save, FEATURE_AVX512ER)
         \cup Flag(HasLeaf7 /\ Bit(EBX7, 28) = 1 /\ HasAVX512Save, FEATURE_AVX512CD)
         \cup Flag(HasLeaf7 /\ Bit(EBX7, 30) = 1 /\ HasAVX512Save, FEATURE_AVX512BW)
         \cup Flag(HasLeaf7 /\ Bit(EBX7, 31) = 1 /\ HasAVX512Save, FEATURE_AVX512VL)
         \cup Flag(HasLeaf7 /\ Bit(ECX7, 1) = 1 /\ HasAVX512Save, FEATURE_AVX512VBMI)
         \cup Flag(HasLeaf7 /\ Bit(ECX7, 14) = 1 /\ HasAVX512Save,
                   FEATURE_AVX512VPOPCNTDQ)
         \cup Flag(HasLeaf7 /\ Bit(EDX7, 2) = 1 /\ HasAVX512Save, FEATURE_AVX5124VNNIW)
         \cup Flag(HasLeaf7 /\ Bit(EDX7, 3) = 1 /\ HasAVX512Save, FEATURE_AVX5124FMAPS)
         \cup Flag(HasExtLeaf1 /\ Bit(ECXx, 6) = 1, FEATURE_SSE4_A)
         \cup Flag(HasExtLeaf1 /\ Bit(ECXx, 11) = 1, FEATURE_XOP)
         \cup Flag(HasExtLeaf1 /\ Bit(ECXx, 16) = 1, FEATURE_FMA4),
       Features2 |->
              Flag(Bit(ECX, 22) = 1, FEATURE_MOVBE - 32)
         \cup Flag(HasLeaf7 /\ Bit(EBX7, 19) = 1, FEATURE_ADX - 32)
         \cup Flag(HasLeaf7 /\ Bit(EBX7, 23) = 1, FEATURE_CLFLUSHOPT - 32)
         \cup Flag(HasLeaf7 /\ Bit(EBX7, 29) = 1, FEATURE_SHA - 32)
         \cup Flag(HasExtLeaf1 /\ Bit(EDXx, 29) = 1, FEATURE_EM64T - 32),
       queried |->
              Call(AskXCR0, "xgetbv")
         \cup Call(AskLeaf7, "cpuid7")
         \cup {"cpuid80000000"}
         \cup Call(AskExtLeaf1, "cpuid80000001")]

----------------------------------------------------------------------------
(* getHostCPUName (x86): the name switches and the entry point *)

\* switch (Type) of the Intel branch; "" when control leaves the switch
IntelName(Type, Subtype) ==
  CASE Type = INTEL_i386 -> "i386"
    [] Type = INTEL_i486 -> "i486"
    [] Type = INTEL_PENTIUM ->
         IF Subtype = INTEL_PENTIUM_MMX THEN "pentium-mmx" ELSE "pentium"
    [] Type = INTEL_PENTIUM_PRO -> "pentiumpro"
    [] Type = INTEL_PENTIUM_II -> "pentium2"
    [] Type = INTEL_PENTIUM_III -> "pentium3"
    [] Type = INTEL_PENTIUM_IV -> "pentium4"
    [] Type = INTEL_PENTIUM_M -> "pentium-m"
    [] Type = INTEL_CORE_DUO -> "yonah"
    [] Type = INTEL_CORE2 ->
         CASE Subtype = INTEL_CORE2_65 -> "core2"
           [] Subtype = INTEL_CORE2_45 -> "penryn"
           [] OTHER -> Unreachable
    [] Type = INTEL_COREI7 ->
         CASE Subtype = INTEL_COREI7_NEHALEM -> "nehalem"
           [] Subtype = INTEL_COREI7_WESTMERE -> "westmere"
           [] Subtype = INTEL_COREI7_SANDYBRIDGE -> "sandybridge"
           [] Subtype = INTEL_COREI7_IVYBRIDGE -> "ivybridge"
           [] Subtype = INTEL_COREI7_HASWELL -> "haswell"
           [] Subtype = INTEL_COREI7_BROADWELL -> "broadwell"
           [] Subtype = INTEL_COREI7_SKYLAKE -> "skylake"
           [] Subtype = INTEL_COREI7_SKYLAKE_AVX512 -> "skylake-avx512"
           [] OTHER -> Unreachable
    [] Type = INTEL_BONNELL -> "bonnell"
    [] Type = INTEL_SILVERMONT -> "silvermont"
    [] Type = INTEL_GOLDMONT -> "goldmont"
    [] Type = INTEL_KNL -> "knl"
    [] Type = INTEL_X86_64 -> "x86-64"
    [] Type = INTEL_NOCONA -> "nocona"
    [] Type = INTEL_PRESCOTT -> "prescott"
    [] OTHER -> ""

\* switch (Type) of the AMD branch; "" when control leaves the switch
AMDName(Type, Subtype) ==
  CASE Type = AMD_i486 -> "i486"
    [] Type = AMDPENTIUM ->
         CASE Subtype = AMDPENTIUM_K6 -> "k6"
           [] Subtype = AMDPENTIUM_K62 -> "k6-2"
           [] Subtype = AMDPENTIUM_K63 -> "k6-3"
           [] Subtype = AMDPENTIUM_GEODE -> "geode"
           [] OTHER -> "pentium"
    [] Type = AMDATHLON ->
         CASE Subtype = AMDATHLON_CLASSIC -> "athlon"
           [] Subtype = AMDATHLON_XP -> "athlon-xp"
           [] Subtype = AMDATHLON_K8 -> "k8"
           [] Subtype = AMDATHLON_K8SSE3 -> "k8-sse3"
           [] OTHER -> Unreachable
    [] Type = AMDFAM10H -> "amdfam10"
    [] Type = AMD_BTVER1 -> "btver1"
    [] Type = AMDFAM15H ->
         CASE Subtype = AMDFAM15H_BDVER2 -> "bdver2"
           [] Subtype = AMDFAM15H_BDVER3 -> "bdver3"
           [] Subtype = AMDFAM15H_BDVER4 -> "bdver4"
           [] OTHER -> "bdver1"    \* default: and AMDFAM15H_BDVER1
    [] Type = AMD_BTVER2 -> "btver2"
    [] Type = AMDFAM17H -> "znver1"
    [] OTHER -> ""

\* Type0 and Subtype0 are what the uninitialized locals Type and Subtype
\* happen to hold when the function starts.
getHostCPUName(hw, Type0, Subtype0) ==
  IF ~isCpuIdSupported(hw) THEN [name |-> "generic", queried |-> {}]
  ELSE IF ~hw.cpuid \/ ~GEq(hw.MaxLeaf, Hex1)
  THEN [name |-> "generic", queried |-> {"cpuid0"}]
  ELSE
    LET EAX == hw.L1.EAX
        EBX == hw.L1.EBX
        ECX == hw.L1.ECX
        EDX == hw.L1.EDX
        Brand_id == Field(EBX, 0, 8)
        FM == detectX86FamilyModel(EAX)
        AF == getAvailableFeatures(hw, ECX, EDX, hw.MaxLeaf)
        TS == IF hw.Vendor = SigIntel
              THEN getIntelProcessorTypeAndSubtype(FM.Family, FM.Model, Brand_id,
                       AF.Features, AF.Features2, Type0, Subtype0)
              ELSE IF hw.Vendor = SigAMD
              THEN getAMDProcessorTypeAndSubtype(FM.Family, FM.Model, AF.Features,
                       Type0, Subtype0)
              ELSE [Type |-> Type0, Subtype |-> Subtype0]
        switched == IF hw.Vendor = SigIntel THEN IntelName(TS.Type, TS.Subtype)
                    ELSE IF hw.Vendor = SigAMD THEN AMDName(TS.Type, TS.Subtype)
                    ELSE ""
    IN  [name |-> IF switched = "" THEN "generic" ELSE switched,
         queried |-> {"cpuid0", "cpuid1"} \cup AF.queried]

----------------------------------------------------------------------------
(* getHostCPUFeatures (x86).  A StringMap<bool> is a function from its keys *)
(* to BOOLEAN; Features[k] = v inserts or overwrites.                       *)

\* the map m after the assignments of n
Assign(m, n) == n @@ m

DetectAVXSave_NoXCR0(hw, ECX) == Bit(ECX, 27) = 1 /\ Bit(ECX, 28) = 1

\* XSAVE/OSXSAVE and AVX reported by CPUID, and SSE and YMM state enabled in XCR0
DetectAVXSave(hw, ECX) ==
  Bit(ECX, 27) = 1 /\ Bit(ECX, 28) = 1 /\ hw.xgetbv
    /\ And(hw.XCR0, Hex6) = Hex6

\* getHostCPUFeatures once leaf 0 has answered with a maximum leaf >= 1
X86Features(hw, Features) ==
    LET MaxLevel == hw.MaxLeaf
        ECX == hw.L1.ECX
        EDX == hw.L1.EDX
        AskXCR0 == Bit(ECX, 27) = 1 /\ Bit(ECX, 28) = 1
        HasAVXSave == DetectAVXSave(hw, ECX)
        HasAVX512Save == HasAVXSave /\ And(hw.XCR0, HexE0) = HexE0
        AskExtLeaf1 == GEq(hw.MaxExt, Hex80000001)
        HasExtLeaf1 == AskExtLeaf1 /\ hw.cpuid
        ECXx == hw.X1.ECX
        AskExtLeaf8 == GEq(hw.MaxExt, Hex80000008)
        HasExtLeaf8 == AskExtLeaf8 /\ hw.cpuid
        AskLeaf7 == GEq(MaxLevel, Hex7)
        HasLeaf7 == AskLeaf7 /\ hw.cpuid
        EBX7 == hw.L7.EBX
        ECX7 == hw.L7.ECX
        AskLeafD == GEq(MaxLevel, HexD)
        HasLeafD == AskLeafD /\ hw.cpuid
        EAXd == hw.LD.EAX
        Set ==
          [cmov |-> Bit(EDX, 15) = 1,
           mmx |-> Bit(EDX, 23) = 1,
           sse |-> Bit(EDX, 25) = 1,
           sse2 |-> Bit(EDX, 26) = 1,
           sse3 |-> Bit(ECX, 0) = 1,
           ssse3 |-> Bit(ECX, 9) = 1,
           pclmul |-> Bit(ECX, 1) = 1,
           cx16 |-> Bit(ECX, 13) = 1,
           movbe |-> Bit(ECX, 22) = 1,
           popcnt |-> Bit(ECX, 23) = 1,
           aes |-> Bit(ECX, 25) = 1,
           rdrnd |-> Bit(ECX, 30) = 1,
           avx |-> HasAVXSave,
           fma |-> HasAVXSave /\ Bit(ECX, 12) = 1,
           f16c |-> HasAVXSave /\ Bit(ECX, 29) = 1,
           xsave |-> HasAVXSave /\ Bit(ECX, 26) = 1,
           lzcnt |-> HasExtLeaf1 /\ Bit(ECXx, 5) = 1,
           sse4a |-> HasExtLeaf1 /\ Bit(ECXx, 6) = 1,
           prfchw |-> HasExtLeaf1 /\ Bit(ECXx, 8) = 1,
           xop |-> HasExtLeaf1 /\ Bit(ECXx, 11) = 1 /\ HasAVXSave,
           lwp |-> HasExtLeaf1 /\ Bit(ECXx, 15) = 1,
           fma4 |-> HasExtLeaf1 /\ Bit(ECXx, 16) = 1 /\ HasAVXSave,
           tbm |-> HasExtLeaf1 /\ Bit(ECXx, 21) = 1,
           mwaitx |-> HasExtLeaf1 /\ Bit(ECXx, 29) = 1,
           clzero |-> HasExtLeaf8 /\ Bit(hw.X8.EBX, 0) = 1,
           avx2 |-> HasAVXSave /\ HasLeaf7 /\ Bit(EBX7, 5) = 1,
           fsgsbase |-> HasLeaf7 /\ Bit(EBX7, 0) = 1,
           sgx |-> HasLeaf7 /\ Bit(EBX7, 2) = 1,
           bmi |-> HasLeaf7 /\ Bit(EBX7, 3) = 1,
           bmi2 |-> HasLeaf7 /\ Bit(EBX7, 8) = 1,
           rtm |-> HasLeaf7 /\ Bit(EBX7, 11) = 1,
           rdseed |-> HasLeaf7 /\ Bit(EBX7, 18) = 1,
           adx |-> HasLeaf7 /\ Bit(EBX7, 19) = 1,
           clflushopt |-> HasLeaf7 /\ Bit(EBX7, 23) = 1,
           clwb |-> HasLeaf7 /\ Bit(EBX7, 24) = 1,
           sha |-> HasLeaf7 /\ Bit(EBX7, 29) = 1,
           avx512f |-> HasLeaf7 /\ Bit(EBX7, 16) = 1 /\ HasAVX512Save,
           avx512dq |-> HasLeaf7 /\ Bit(EBX7, 17) = 1 /\ HasAVX512Save,
           avx512ifma |-> HasLeaf7 /\ Bit(EBX7, 21) = 1 /\ HasAVX512Save,
           avx512pf |-> HasLeaf7 /\ Bit(EBX7, 26) = 1 /\ HasAVX512Save,
           avx512er |-> HasLeaf7 /\ Bit(EBX7, 27) = 1 /\ HasAVX512Save,
           avx512cd |-> HasLeaf7 /\ Bit(EBX7, 28) = 1 /\ HasAVX512Save,
           avx512bw |-> HasLeaf7 /\ Bit(EBX7, 30) = 1 /\ HasAVX512Save,
           avx512vl |-> HasLeaf7 /\ Bit(EBX7, 31) = 1 /\ HasAVX512Save,
           prefetchwt1 |-> HasLeaf7 /\ Bit(ECX7, 0) = 1,
           avx512vbmi |-> HasLeaf7 /\ Bit(ECX7, 1) = 1 /\ HasAVX512Save,
           avx512vpopcntdq |-> HasLeaf7 /\ Bit(ECX7, 14) = 1 /\ HasAVX512Save,
           pku |-> HasLeaf7 /\ Bit(ECX7, 4) = 1,
           xsaveopt |-> HasAVXSave /\ HasLeafD /\ Bit(EAXd, 0) = 1,
           xsavec |-> HasAVXSave /\ HasLeafD /\ Bit(EAXd, 1) = 1,
           xsaves |-> HasAVXSave /\ HasLeafD /\ Bit(EAXd, 3) = 1]
          @@ ("sse4.1" :> (Bit(ECX, 19) = 1))
          @@ ("sse4.2" :> (Bit(ECX, 20) = 1))
    IN  [ret |-> TRUE,
         Features |-> Assign(Features, Set),
         queried |-> {"cpuid0", "cpuid1", "cpuid80000000"}
                       \cup Call(AskXCR0, "xgetbv")
                       \cup Call(AskExtLeaf1, "cpuid80000001")
                       \cup Call(AskExtLeaf8, "cpuid80000008")
                       \cup Call(AskLeaf7, "cpuid7")
                       \cup Call(AskLeafD, "cpuidD")]

getHostCPUFeatures_NoMaxLeafCheck(hw, Features) ==
  IF ~hw.cpuid
  THEN [ret |-> FALSE, Features |-> Features, queried |-> {"cpuid0"}]
  ELSE X86Features(hw, Features)

getHostCPUFeatures(hw, Features) ==
  IF ~hw.cpuid \/ ~GEq(hw.MaxLeaf, Hex1)
  THEN [ret |-> FALSE, Features |-> Features, queried |-> {"cpuid0"}]
  ELSE X86Features(hw, Features)

----------------------------------------------------------------------------
(* StringRef and MemoryBuffer services used by the core counter.  A text   *)
(* is a string; its characters are its substrings of length one.           *)

Spaces == {" ", "\t", "\n", "\f", "\r"}
Digits == {"0", "1", "2", "3", "4", "5", "6", "7", "8", "9"}

RECURSIVE ltrim(_)
ltrim(s) ==
  IF s # "" /\ SubSeq(s, 1, 1) \in Spaces THEN ltrim(SubSeq(s, 2, Len(s))) ELSE s

RECURSIVE rtrim(_)
rtrim(s) ==
  IF s # "" /\ SubSeq(s, Len(s), Len(s)) \in Spaces
  THEN rtrim(SubSeq(s, 1, Len(s) - 1)) ELSE s

\* StringRef::trim()
trim(s) == rtrim(ltrim(s))

\* StringRef::startswith
startswith(s, prefix) ==
  Len(s) >= Len(prefix) /\ SubSeq(s, 1, Len(prefix)) = prefix

RECURSIVE find(_, _, _)
\* the first position >= i of the character c in s, 0 when there is none
find(s, c, i) ==
  IF i > Len(s) THEN 0
  ELSE IF SubSeq(s, i, i) = c THEN i ELSE find(s, c, i + 1)

\* StringRef::split(char): around the first separator
split(s, c) ==
  LET i == find(s, c, 1)
  IN  IF i = 0 THEN <<s, "">>
      ELSE <<SubSeq(s, 1, i - 1), SubSeq(s, i + 1, Len(s))>>

RECURSIVE splitLines(_)
\* StringRef::split(strs, "\n", -1, /*KeepEmpty=*/false)
splitLines(s) ==
  IF s = "" THEN <<>>
  ELSE LET i == find(s, "\n", 1)
       IN  IF i = 0 THEN <<s>>
           ELSE (IF i = 1 THEN <<>> ELSE <<SubSeq(s, 1, i - 1)>>)
                  \o splitLines(SubSeq(s, i + 1, Len(s)))

DigitValue(c) ==
  CASE c = "0" -> 0 [] c = "1" -> 1 [] c = "2" -> 2 [] c = "3" -> 3 [] c = "4" -> 4
    [] c = "5" -> 5 [] c = "6" -> 6 [] c = "7" -> 7 [] c = "8" -> 8 [] c = "9" -> 9

RECURSIVE parseDigits(_, _, _)
\* the int that the digits s extend acc to (sign is 1 or -1), or "error" when
\* a character is no digit or the value leaves the range of int
parseDigits(s, acc, sign) ==
  IF s = "" THEN [ok |-> TRUE, value |-> acc]
  ELSE LET c == SubSeq(s, 1, 1)
       IN  IF c \notin Digits THEN [ok |-> FALSE, value |-> 0]
           ELSE LET d == DigitValue(c)
                    fits == IF sign = 1
                            THEN acc < 214748364 \/ (acc = 214748364 /\ d <= 7)
                            ELSE acc > -214748364 \/ (acc = -214748364 /\ d <= 8)
                IN  IF ~fits THEN [ok |-> FALSE, value |-> 0]
                    ELSE parseDigits(SubSeq(s, 2, Len(s)), acc * 10 + sign * d, sign)

\* StringRef::getAsInteger(10, int &Result): Result is assigned only when the
\* whole of s is a decimal int; the value of Result afterwards
getAsInteger(s, Result) ==
  LET neg == s # "" /\ SubSeq(s, 1, 1) = "-"
      body == IF neg THEN SubSeq(s, 2, Len(s)) ELSE s
      r == IF body = "" THEN [ok |-> FALSE, value |-> 0]
           ELSE parseDigits(body, 0, IF neg THEN -1 ELSE 1)
  IN  IF r.ok THEN r.value ELSE Result

----------------------------------------------------------------------------
(* computeHostNumPhysicalCores (Linux, x86-64) *)

\* one iteration of the loop over the lines; st holds CurPhysicalId,
\* CurCoreId, UniqueItems and whether an assertion has been found false
ScanLine_KeepCoreId(st, Line0) ==
  LET Line == trim(Line0)
  IN  IF ~startswith(Line, "physical id") /\ ~startswith(Line, "core id") THEN st
      ELSE
        LET Data == split(Line, ":")
            Name == trim(Data[1])
            Val == trim(Data[2])
            phys == IF Name = "physical id" THEN getAsInteger(Val, st.CurPhysicalId)
                    ELSE st.CurPhysicalId
            core == IF Name = "core id" THEN getAsInteger(Val, st.CurCoreId)
                    ELSE st.CurCoreId
            bad == \/ Name = "physical id" /\ st.CurPhysicalId # -1
                   \/ Name = "core id" /\ st.CurCoreId # -1
        IN  IF phys # -1 /\ core # -1
            THEN [CurPhysicalId |-> -1, CurCoreId |-> core,
                  UniqueItems |-> st.UniqueItems \cup {<<phys, core>>},
                  assertFailed |-> st.assertFailed \/ bad]
            ELSE [CurPhysicalId |-> phys, CurCoreId |-> core,
                  UniqueItems |-> st.UniqueItems,
                  assertFailed |-> st.assertFailed \/ bad]

ScanLine(st, Line0) ==
  LET Line == trim(Line0)
  IN  IF ~startswith(Line, "physical id") /\ ~startswith(Line, "core id") THEN st
      ELSE
        LET Data == split(Line, ":")
            Name == trim(Data[1])
            Val == trim(Data[2])
            phys == IF Name = "physical id" THEN getAsInteger(Val, st.CurPhysicalId)
                    ELSE st.CurPhysicalId
            core == IF Name = "core id" THEN getAsInteger(Val, st.CurCoreId)
                    ELSE st.CurCoreId
            \* assert(CurPhysicalId == -1 && ...), assert(CurCoreId == -1 && ...)
            bad == \/ Name = "physical id" /\ st.CurPhysicalId # -1
                   \/ Name = "core id" /\ st.CurCoreId # -1
        IN  IF phys # -1 /\ core # -1
            THEN [CurPhysicalId |-> -1, CurCoreId |-> -1,
                  UniqueItems |-> st.UniqueItems \cup {<<phys, core>>},
                  assertFailed |-> st.assertFailed \/ bad]
            ELSE [CurPhysicalId |-> phys, CurCoreId |-> core,
                  UniqueItems |-> st.UniqueItems,
                  assertFailed |-> st.assertFailed \/ bad]

RECURSIVE ScanLines(_, _, _)
ScanLines(st, strs, i) ==
  IF i > Len(strs) THEN st ELSE ScanLines(ScanLine(st, strs[i]), strs, i + 1)

\* the value returned when no assertion stops the scan, and whether the
\* condition of an assertion was false on the way (a build with assertions
\* stops there)
computeHostNumPhysicalCores(f) ==
  IF ~f.ok THEN [ret |-> -1, assertFailed |-> FALSE]
  ELSE LET st == ScanLines([CurPhysicalId |-> -1, CurCoreId |-> -1,
                            UniqueItems |-> {}, assertFailed |-> FALSE],
                           splitLines(f.text), 1)
       IN  [ret |-> Cardinality(st.UniqueItems), assertFailed |-> st.assertFailed]

getHostNumPhysicalCores_NotStatic(cache, f) ==
  LET r == computeHostNumPhysicalCores(f)
  IN  [NumCores |-> [guard |-> TRUE, value |-> r.ret], ret |-> r.ret,
       computed |-> TRUE, assertFailed |-> r.assertFailed]

\* static int NumCores = computeHostNumPhysicalCores(); return NumCores;
\* cache is the static with its initialization guard
getHostNumPhysicalCores(cache, f) ==
  IF cache.guard
  THEN [NumCores |-> cache, ret |-> cache.value, computed |-> FALSE,
        assertFailed |-> FALSE]
  ELSE LET r == computeHostNumPhysicalCores(f)
       IN  [NumCores |-> [guard |-> TRUE, value |-> r.ret], ret |-> r.ret,
            computed |-> TRUE, assertFailed |-> r.assertFailed]

StaticGuard_NoLock(cache, busy) == IF cache.guard THEN "done" ELSE "init"

\* what a thread that reaches the declaration of the static does: the
\* initialization of a function-local static is guarded, so a thread that
\* finds another one initializing it waits for that one to finish
StaticGuard(cache, busy) ==
  IF cache.guard THEN "done" ELSE IF busy THEN "wait" ELSE "init"

----------------------------------------------------------------------------
(* getProcCpuinfoContent and the callers that hand its text to a decoder *)

\* P ? P->getBuffer() : "" : the text a name decoder is given
ContentOf(f) == IF f.ok THEN f.text ELSE ""

----------------------------------------------------------------------------
(* getHostCPUNameForPowerPC.  CIP is a position in the text, 1 for its      *)
(* first character and Len + 1 for CPUInfoEnd.                              *)

\* *CIP when CIP < CPUInfoEnd, and "" (equal to no character) otherwise
At(s, CIP) == IF CIP <= Len(s) THEN SubSeq(s, CIP, CIP) ELSE ""

RECURSIVE SkipBlanks(_, _)
\* while (CIP < CPUInfoEnd && (*CIP == ' ' || *CIP == '\t')) ++CIP;
SkipBlanks(s, CIP) ==
  IF At(s, CIP) \in {" ", "\t"} THEN SkipBlanks(s, CIP + 1) ELSE CIP

RECURSIVE SkipToNewline(_, _)
\* while (CIP < CPUInfoEnd && *CIP != '\n') ++CIP;
SkipToNewline(s, CIP) ==
  IF CIP <= Len(s) /\ At(s, CIP) # "\n" THEN SkipToNewline(s, CIP + 1) ELSE CIP

RECURSIVE TokenEnd_NoComma(_, _)
TokenEnd_NoComma(s, CIP) ==
  IF CIP <= Len(s) /\ At(s, CIP) \notin {" ", "\t", "\n"}
  THEN TokenEnd_NoComma(s, CIP + 1) ELSE CIP

RECURSIVE TokenEnd(_, _)
\* while (CIP < CPUInfoEnd && (*CIP != ' ' && *CIP != '\t' && *CIP != ',' &&
\*                             *CIP != '\n')) ++CIP;
TokenEnd(s, CIP) ==
  IF CIP <= Len(s) /\ At(s, CIP) \notin {" ", "\t", ",", "\n"}
  THEN TokenEnd(s, CIP + 1) ELSE CIP

RECURSIVE FindCPU(_, _)
\* the loop while (CIP < CPUInfoEnd && CPUStart == 0), entered with CIP:
\* found tells whether CPUStart was set, token is StringRef(CPUStart, CPULen)
FindCPU(s, CIP) ==
  IF CIP > Len(s) THEN [found |-> FALSE, token |-> ""]
  ELSE
    LET c0 == IF At(s, CIP) = "\n" THEN CIP + 1 ELSE CIP
    IN  IF At(s, c0) # "c" THEN FindCPU(s, SkipToNewline(s, c0))
        ELSE IF At(s, c0 + 1) # "p" THEN FindCPU(s, SkipToNewline(s, c0 + 1))
        ELSE IF At(s, c0 + 2) # "u" THEN FindCPU(s, SkipToNewline(s, c0 + 2))
        ELSE
          LET c1 == SkipBlanks(s, c0 + 3)
          IN  IF At(s, c1) # ":" THEN FindCPU(s, SkipToNewline(s, c1))
              ELSE
                LET c2 == SkipBlanks(s, c1 + 1)
                IN  IF c2 <= Len(s)
                    THEN [found |-> TRUE,
                          token |-> SubSeq(s, c2, TokenEnd(s, c2) - 1)]
                    ELSE FindCPU(s, SkipToNewline(s, c2))

\* the StringSwitch over the token
PowerPCName(token) ==
  CASE token = "604e" -> "604e"
    [] token = "604" -> "604"
    [] token = "7400" -> "7400"
    [] token = "7410" -> "7400"
    [] token = "7447" -> "7400"
    [] token = "7455" -> "7450"
    [] token = "G4" -> "g4"
    [] token = "POWER4" -> "970"
    [] token = "PPC970FX" -> "970"
    [] token = "PPC970MP" -> "970"
    [] token = "G5" -> "g5"
    [] token = "POWER5" -> "g5"
    [] token = "A2" -> "a2"
    [] token = "POWER6" -> "pwr6"
    [] token = "POWER7" -> "pwr7"
    [] token = "POWER8" -> "pwr8"
    [] token = "POWER8E" -> "pwr8"
    [] token = "POWER8NVL" -> "pwr8"
    [] token = "POWER9" -> "pwr9"
    [] OTHER -> "generic"

getHostCPUNameForPowerPC(ProcCpuinfoContent) ==
  LET r == FindCPU(ProcCpuinfoContent, 1)
  IN  IF ~r.found THEN "generic" ELSE PowerPCName(r.token)

----------------------------------------------------------------------------
(* StringRef services used by the ARM and S390x decoders *)

RECURSIVE splitKeep(_, _)
\* StringRef::split(strs, Separator): every piece, the empty ones too
\* (KeepEmpty = true), for a separator c of one character
splitKeep(s, c) ==
  LET i == find(s, c, 1)
  IN  IF i = 0 THEN <<s>>
      ELSE <<SubSeq(s, 1, i - 1)>> \o splitKeep(SubSeq(s, i + 1, Len(s)), c)

\* StringRef::substr(Start) and StringRef::drop_front(N)
substr(s, Start) == IF Start >= Len(s) THEN "" ELSE SubSeq(s, Start + 1, Len(s))

RECURSIVE ltrimChars(_, _)
\* StringRef::ltrim(Chars)
ltrimChars(s, Chars) ==
  IF s # "" /\ SubSeq(s, 1, 1) \in Chars THEN ltrimChars(SubSeq(s, 2, Len(s)), Chars)
  ELSE s

\* StringRef::endswith
endswith(s, suffix) ==
  Len(s) >= Len(suffix) /\ SubSeq(s, Len(s) - Len(suffix) + 1, Len(s)) = suffix

RECURSIVE findStr(_, _, _)
\* StringRef::find(StringRef): the first position >= i where str begins in
\* s, 0 when there is none (npos)
findStr(s, str, i) ==
  IF i + Len(str) - 1 > Len(s) THEN 0
  ELSE IF SubSeq(s, i, i + Len(str) - 1) = str THEN i ELSE findStr(s, str, i + 1)

\* the first I with Lines[I].startswith(prefix), 0 when there is none
FirstLine(Lines, prefix) ==
  LET hits == {I \in DOMAIN Lines : startswith(Lines[I], prefix)}
  IN  IF hits = {} THEN 0 ELSE CHOOSE I \in hits : \A J \in hits : I <= J

LastLine_First(Lines, prefix) ==
  LET hits == {I \in DOMAIN Lines : startswith(Lines[I], prefix)}
  IN  IF hits = {} THEN 0 ELSE CHOOSE I \in hits : \A J \in hits : I <= J

\* the last I with Lines[I].startswith(prefix), 0 when there is none
LastLine(Lines, prefix) ==
  LET hits == {I \in DOMAIN Lines : startswith(Lines[I], prefix)}
  IN  IF hits = {} THEN 0 ELSE CHOOSE I \in hits : \A J \in hits : I >= J

RECURSIVE LeqDigits(_, _)
\* a <= b for two digit strings of the same length
LeqDigits(a, b) ==
  IF a = "" THEN TRUE
  ELSE LET x == DigitValue(SubSeq(a, 1, 1))
           y == DigitValue(SubSeq(b, 1, 1))
       IN  IF x # y THEN x < y
           ELSE LeqDigits(SubSeq(a, 2, Len(a)), SubSeq(b, 2, Len(b)))

\* StringRef::getAsInteger(10, unsigned &Result): ok tells that the whole of
\* s is a decimal number that fits 32 bits (getAsInteger returns false).
\* value is the number when it is below 2^31 and 2^31 - 1 above that: the
\* callers only compare it with numbers of four digits.
getAsUnsigned(s) ==
  LET allDigits == s # "" /\ \A i \in 1..Len(s) : SubSeq(s, i, i) \in Digits
      body == IF allDigits THEN ltrimChars(s, {"0"}) ELSE ""
      fits32 == Len(body) < 10 \/ (Len(body) = 10 /\ LeqDigits(body, "4294967295"))
      fits31 == Len(body) < 10 \/ (Len(body) = 10 /\ LeqDigits(body, "2147483647"))
  IN  IF ~allDigits \/ ~fits32 THEN [ok |-> FALSE, value |-> 0]
      ELSE IF fits31 THEN [ok |-> TRUE, value |-> parseDigits(body, 0, 1).value]
      ELSE [ok |-> TRUE, value |-> 2147483647]

----------------------------------------------------------------------------
(* getHostCPUNameForARM *)

\* the StringSwitch over the CPU part of an ARM Ltd. core
ARMPartName(part) ==
  CASE part = "0x926" -> "arm926ej-s"
    [] part = "0xb02" -> "mpcore"
    [] part = "0xb36" -> "arm1136j-s"
    [] part = "0xb56" -> "arm1156t2-s"
    [] part = "0xb76" -> "arm1176jz-s"
    [] part = "0xc08" -> "cortex-a8"
    [] part = "0xc09" -> "cortex-a9"
    [] part = "0xc0f" -> "cortex-a15"
    [] part = "0xc20" -> "cortex-m0"
    [] part = "0xc23" -> "cortex-m3"
    [] part = "0xc24" -> "cortex-m4"
    [] part = "0xd04" -> "cortex-a35"
    [] part = "0xd03" -> "cortex-a53"
    [] part = "0xd07" -> "cortex-a57"
    [] part = "0xd08" -> "cortex-a72"
    [] part = "0xd09" -> "cortex-a73"
    [] OTHER -> "generic"

\* the StringSwitch over the CPU part of a Qualcomm core
QualcommPartName(part) ==
  CASE part = "0x06f" -> "krait"
    [] part = "0x201" -> "kryo"
    [] part = "0x205" -> "kryo"
    [] part = "0x211" -> "kryo"
    [] part = "0x800" -> "cortex-a73"
    [] part = "0x801" -> "cortex-a73"
    [] part = "0xc00" -> "falkor"
    [] part = "0xc01" -> "saphira"
    [] OTHER -> "generic"

IsMSM899x_8994Only(Hardware) == endswith(Hardware, "MSM8994")

\* Hardware.endswith("MSM8994") || Hardware.endswith("MSM8996")
IsMSM899x(Hardware) ==
  endswith(Hardware, "MSM8994") \/ endswith(Hardware, "MSM8996")

getHostCPUNameForARM(ProcCpuinfoContent) ==
  LET Lines == splitKeep(ProcCpuinfoContent, "\n")
      \* each loop pass overwrites: the last such line gives the value
      Value(prefix, n) ==
        LET I == LastLine(Lines, prefix)
        IN  IF I = 0 THEN "" ELSE ltrimChars(substr(Lines[I], n), {"\t", " ", ":"})
      Implementer == Value("CPU implementer", 15)
      Hardware == Value("Hardware", 8)
      P == FirstLine(Lines, "CPU part")
      Part == ltrimChars(substr(Lines[P], 8), {"\t", " ", ":"})
  IN  IF Implementer = "0x41" /\ IsMSM899x(Hardware) THEN "cortex-a53"
      ELSE IF Implementer = "0x41" /\ P # 0 THEN ARMPartName(Part)
      ELSE IF Implementer = "0x51" /\ P # 0 THEN QualcommPartName(Part)
      ELSE "generic"

----------------------------------------------------------------------------
(* getHostCPUFeatures (Linux, ARM and AArch64) *)

\* the StringSwitch over a word of the Features line; aarch64 tells which
\* of the two tables the build holds
ARMFeatureStr(aarch64, word) ==
  IF aarch64
  THEN CASE word = "asimd" -> "neon"
         [] word = "fp" -> "fp-armv8"
         [] word = "crc32" -> "crc"
         [] OTHER -> ""
  ELSE CASE word = "half" -> "fp16"
         [] word = "neon" -> "neon"
         [] word = "vfpv3" -> "vfp3"
         [] word = "vfpv3d16" -> "d16"
         [] word = "vfpv4" -> "vfp4"
         [] word = "idiva" -> "hwdiv-arm"
         [] word = "idivt" -> "hwdiv"
         [] OTHER -> ""

\* every assignment stores true, so the order of the words does not matter
getHostCPUFeaturesARM(f, aarch64, Features) ==
  IF ~f.ok THEN [ret |-> FALSE, Features |-> Features]
  ELSE
    LET Lines == splitKeep(f.text, "\n")
        I == FirstLine(Lines, "Features")
        CPUFeatures == IF I = 0 THEN <<>> ELSE splitKeep(Lines[I], " ")
        words == {CPUFeatures[J] : J \in DOMAIN CPUFeatures}
        crypto == aarch64 /\ {"aes", "pmull", "sha1", "sha2"} \subseteq words
        keys == ({ARMFeatureStr(aarch64, w) : w \in words} \ {""})
                  \cup (IF crypto THEN {"crypto"} ELSE {})
    IN  [ret |-> TRUE, Features |-> Assign(Features, [k \in keys |-> TRUE])]

----------------------------------------------------------------------------
(* getHostCPUNameForS390x *)

S390xMachineName_NoVX(Id, HaveVectorSupport) ==
  IF Id >= 3906 THEN "z14"
  ELSE IF Id >= 2964 THEN "z13"
  ELSE IF Id >= 2827 THEN "zEC12"
  ELSE IF Id >= 2817 THEN "z196"
  ELSE "generic"

\* the four tests on Id, and the return "generic" that follows the loop
S390xMachineName(Id, HaveVectorSupport) ==
  IF Id >= 3906 /\ HaveVectorSupport THEN "z14"
  ELSE IF Id >= 2964 /\ HaveVectorSupport THEN "z13"
  ELSE IF Id >= 2827 THEN "zEC12"
  ELSE IF Id >= 2817 THEN "z196"
  ELSE "generic"

FeaturesLine_NoColonCheck(Lines) == FirstLine(Lines, "features")

\* the line whose words become CPUFeatures: the loop leaves at the first
\* line that starts with "features" and holds a colon (0 when there is none)
FeaturesLine(Lines) ==
  LET feats == {I \in DOMAIN Lines :
                  startswith(Lines[I], "features") /\ find(Lines[I], ":", 1) # 0}
  IN  IF feats = {} THEN 0 ELSE CHOOSE I \in feats : \A J \in feats : I <= J

getHostCPUNameForS390x(ProcCpuinfoContent) ==
  LET Lines == splitKeep(ProcCpuinfoContent, "\n")
      F == FeaturesLine(Lines)
      CPUFeatures ==
        IF F = 0 THEN <<>>
        ELSE splitKeep(substr(Lines[F], find(Lines[F], ":", 1)), " ")
      HaveVectorSupport == \E I \in DOMAIN CPUFeatures : CPUFeatures[I] = "vx"
      \* the loop breaks at the first line that starts with "processor "
      P == FirstLine(Lines, "processor ")
      Pos == IF P = 0 THEN 0 ELSE findStr(Lines[P], "machine = ", 1)
      Id == getAsUnsigned(substr(Lines[P], Pos - 1 + Len("machine = ")))
  IN  IF P = 0 \/ Pos = 0 \/ ~Id.ok THEN "generic"
      ELSE S390xMachineName(Id.value, HaveVectorSupport)

----------------------------------------------------------------------------
(* Hosts.  The registers are drawn from the bits the decoders read. *)

MaxExtFamily == 8

\* EAX of leaf 1 from its fields: base family, extended family, base model,
\* extended model, and the remaining bits (stepping, type, reserved)
MkEAX(bf, xf, bm, xm, rest) ==
  WordOf(bm * 16 + bf * 256 + xm * 65536 + xf * 1048576) \cup rest

ExtFamilies == (0..MaxExtFamily) \cup {255}
RestBits == {{}, WordOf(10), {0, 1, 2, 3, 12, 13, 14, 15, 28, 29, 30, 31}}

AllL1ECX == {0, 1, 9, 12, 13, 19, 20, 22, 23, 25, 26, 27, 28, 29, 30}
AllL1EDX == {15, 23, 25, 26}
AllXCR0  == {0, 1, 2, 5, 6, 7}
AllL7EBX == {0, 2, 3, 5, 8, 9, 11, 16, 17, 18, 19, 21, 23, 24, 26, 27, 28, 29, 30, 31}
AllL7ECX == {0, 1, 4, 14}
AllL7EDX == {2, 3}
AllX1ECX == {5, 6, 8, 11, 15, 16, 21, 29}
AllX1EDX == {29}

\* a host with no feature bit set, and one with every feature bit set
BareHost ==
  [idSupported |-> TRUE, cpuid |-> TRUE, MaxLeaf |-> Hex1, Vendor |-> {},
   L1 |-> [EAX |-> {}, EBX |-> {}, ECX |-> {}, EDX |-> {}],
   xgetbv |-> TRUE, XCR0 |-> {},
   L7 |-> [EBX |-> {}, ECX |-> {}, EDX |-> {}],
   MaxExt |-> {31}, X1 |-> [ECX |-> {}, EDX |-> {}],
   X8 |-> [EBX |-> {}], LD |-> [EAX |-> {}]]

FullHost ==
  [idSupported |-> TRUE, cpuid |-> TRUE, MaxLeaf |-> HexD, Vendor |-> {},
   L1 |-> [EAX |-> {}, EBX |-> {}, ECX |-> AllL1ECX, EDX |-> AllL1EDX],
   xgetbv |-> TRUE, XCR0 |-> AllXCR0,
   L7 |-> [EBX |-> AllL7EBX, ECX |-> AllL7ECX, EDX |-> AllL7EDX],
   MaxExt |-> Hex80000008, X1 |-> [ECX |-> AllX1ECX, EDX |-> AllX1EDX],
   X8 |-> [EBX |-> {0}], LD |-> [EAX |-> {0, 1, 3}]]

\* SSE-era host: MMX, SSE, SSE2, SSE3, SSSE3 and nothing newer
LegacyHost ==
  [BareHost EXCEPT !.L1.ECX = {0, 9}, !.L1.EDX = AllL1EDX]

Vendors == {SigIntel, SigAMD, {}}

\* EBX of leaf 1: brand id 0 and brand id 1, with the CLFLUSH line size above it
BrandEBX == {{11}, {0, 11}}

\* every family the decoders know and the ones between; every model 0..255
\* for the families whose tables reach that far (6 and 21), and the models
\* 0..31 for the other families that have an extended model
IdentityEAX ==
  {MkEAX(f[1], f[2], bm, xm, {}) :
     f \in {<<bf, 0>> : bf \in 0..14} \cup {<<15, xf>> : xf \in 0..MaxExtFamily},
     bm \in 0..15, xm \in 0..15}

\* hosts that differ in identity: vendor, brand id, family, model
IdentityHosts ==
  {[h EXCEPT !.Vendor = v, !.L1.EBX = b, !.L1.EAX = e] :
     h \in {BareHost, LegacyHost, FullHost}, v \in Vendors, b \in BrandEBX,
     e \in {x \in IdentityEAX :
              /\ Field(x, 8, 4) \notin {6, 15} => Field(x, 16, 4) = 0
              /\ Field(x, 8, 4) = 15 /\ Field(x, 20, 8) # 6 => Field(x, 16, 4) <= 1}}

\* hosts that differ in what CPUID and XGETBV report as features
FeatureHosts ==
  {[idSupported |-> TRUE, cpuid |-> TRUE, MaxLeaf |-> ml, Vendor |-> SigIntel,
    L1 |-> [EAX |-> MkEAX(6, 0, 0, 0, {}), EBX |-> {11}, ECX |-> c1,
            EDX |-> IF c1 = {} THEN {} ELSE AllL1EDX],
    xgetbv |-> xa, XCR0 |-> x0 \cup {0},
    L7 |-> hi.L7, MaxExt |-> mx, X1 |-> x1, X8 |-> hi.X8, LD |-> hi.LD] :
     ml \in {Hex1, Hex7, HexD},
     c1 \in {{}, AllL1ECX, AllL1ECX \ {27}, AllL1ECX \ {28}, {27, 28}},
     xa \in BOOLEAN,
     x0 \in SUBSET {1, 2, 5, 6, 7},
     hi \in {BareHost, FullHost},
     mx \in {{31}, Hex80000001, Hex80000008},
     x1 \in {BareHost.X1, FullHost.X1}}

\* feature hosts whose leaf 7 EBX has BMI1-era bit 8, bit 9, both or none
\* (the two decoders read BMI2 from leaf 7 EBX), with the XCR0 values that
\* save nothing, SSE only, SSE and AVX, the AVX512 state only, or everything
DecoderHosts ==
  {[h EXCEPT !.L7.EBX = (h.L7.EBX \ {8, 9}) \cup b] :
     h \in {g \in FeatureHosts :
              /\ g.XCR0 \in {{0}, {0, 1}, {0, 1, 2}, {0, 5, 6, 7}, AllXCR0}
              /\ g.MaxLeaf # HexD /\ g.MaxExt # Hex80000008},
     b \in SUBSET {8, 9}}

\* Intel hosts of family 6 with a model the table does not list (0) and
\* brand id 0, with every choice of the CPUID bits the guess looks at:
\* SSSE3, SSE4.1, SSE4.2, MOVBE, OSXSAVE with AVX (leaf 1 ECX); MMX, SSE,
\* SSE2 (leaf 1 EDX); AVX2, AVX512F, ADX, CLFLUSHOPT, SHA, AVX512VL (leaf 7
\* EBX); EM64T (leaf 0x80000001 EDX).  The system saves every register set.
CascadeHosts ==
  LET eax == MkEAX(6, 0, 0, 0, {})
  IN  {[FullHost EXCEPT !.Vendor = SigIntel, !.MaxLeaf = Hex7,
                        !.L1 = [EAX |-> eax, EBX |-> {11}, ECX |-> c \cup a,
                                EDX |-> d],
                        !.L7 = [EBX |-> b, ECX |-> {}, EDX |-> {}],
                        !.X1 = [ECX |-> {}, EDX |-> x]] :
         c \in SUBSET {9, 19, 20, 22}, a \in {{}, {27, 28}},
         d \in SUBSET {23, 25, 26}, b \in SUBSET {5, 16, 19, 23, 29, 31},
         x \in SUBSET {29}}

\* hosts on which leaf 0 is unavailable or reports a maximum leaf of 0
NoLeafHosts ==
  {h \in {[g EXCEPT !.Vendor = v, !.cpuid = c, !.MaxLeaf = ml, !.xgetbv = xa] :
            g \in {BareHost, FullHost}, v \in {SigIntel, SigAMD},
            c \in BOOLEAN, ml \in {{}, HexD}, xa \in BOOLEAN} :
     ~h.cpuid \/ h.MaxLeaf = {}}

\* hosts of a 32-bit build from GCC or Clang, where the CPUID instruction is
\* always emitted: processors with the instruction, and processors without
\* it, whose registers after a query nothing defines
I386Hosts ==
  {[h EXCEPT !.idSupported = b] :
     h \in {g \in NoLeafHosts : g.cpuid} \cup {BareHost, FullHost, LegacyHost},
     b \in BOOLEAN}

\* what the uninitialized locals Type and Subtype of getHostCPUName may hold
\* (<<Type, Subtype>>)
StackGarbage ==
  {<<0, 0>>, <<INTEL_BONNELL, 0>>, <<INTEL_COREI7, INTEL_COREI7_NEHALEM>>,
   <<INTEL_COREI7, INTEL_PENTIUM_MMX>>, <<AMDFAM10H, AMDFAM15H_BDVER2>>,
   <<AMDATHLON, 0>>, <<CPU_TYPE_MAX, INTEL_PENTIUM_MMX>>,
   <<CPU_TYPE_MAX, AMDFAM15H_BDVER2>>}

\* the caller's map before the call
NoFeatures == [k \in {} |-> TRUE]
CallerMaps == {NoFeatures, [avx |-> TRUE, crc |-> FALSE]}

----------------------------------------------------------------------------
(* /proc/cpuinfo.  A file is written from a layout, a sequence of blocks;  *)
(* the layout is kept beside the text to state what the text holds.        *)

MaxBlocks == 3
MaxCalls == 2

PhysLine(p) == "physical id\t: " \o p \o "\n"
CoreLine(c) == "core id\t\t: " \o c \o "\n"

\* "pc": a physical id line then a core id line; "cp": the two swapped
PairBlocks ==
  [kind : {"pc"}, p : {"0", "1", "2147483648"}, c : {"0", "1"}]
    \cup [kind : {"cp"}, p : {"0"}, c : {"0", "1"}]
\* values that are no non-negative decimal number
OddBlocks == {[kind |-> "pc", p |-> "-1", c |-> "0"], [kind |-> "pc", p |-> "0", c |-> "x"]}
\* lines of other keys, one of them beginning like "physical id"
NoiseBlocks == [kind : {"processor", "blank", "identity"}, p : {""}, c : {""}]
\* one line of a pair without the other
LoneBlocks == [kind : {"p", "c"}, p : {"0"}, c : {"0"}]
Blocks == PairBlocks \cup OddBlocks \cup NoiseBlocks \cup LoneBlocks

RenderBlock(b) ==
  CASE b.kind = "pc" -> PhysLine(b.p) \o CoreLine(b.c)
    [] b.kind = "cp" -> CoreLine(b.c) \o PhysLine(b.p)
    [] b.kind = "p" -> PhysLine(b.p)
    [] b.kind = "c" -> CoreLine(b.c)
    [] b.kind = "processor" -> "processor\t: 0\n"
    [] b.kind = "blank" -> "\n"
    [] b.kind = "identity" -> "physical identity\t: 7\n"

RECURSIVE Render(_)
Render(layout) ==
  IF layout = <<>> THEN "" ELSE RenderBlock(Head(layout)) \o Render(Tail(layout))

Layouts == UNION {[1..k -> Blocks] : k \in 0..MaxBlocks}

\* getFileAsStream fails
Unreadable == [ok |-> FALSE, text |-> "", layout |-> <<>>]
FileOf(layout) == [ok |-> TRUE, text |-> Render(layout), layout |-> layout]
CpuinfoFiles == {FileOf(l) : l \in Layouts} \cup {Unreadable}

Pair(p, c) == [kind |-> "pc", p |-> p, c |-> c]
\* the files the host moves between while the process runs
HotplugFiles ==
  {Unreadable, FileOf(<<>>), FileOf(<<Pair("0", "0")>>),
   FileOf(<<Pair("0", "0"), Pair("0", "1")>>),
   FileOf(<<Pair("0", "0"), Pair("0", "1"), Pair("1", "0")>>),
   FileOf(<<[kind |-> "p", p |-> "0", c |-> "0"], Pair("1", "1")>>)}

----------------------------------------------------------------------------
(* /proc/cpuinfo of a PowerPC host.  A layout is a sequence of lines; cpu   *)
(* tells that the line begins with "cpu", blanks and a colon, and token is  *)
(* what follows the colon and its blanks up to a blank, comma or line end.  *)

MaxLines == 3

Line(text, isCpu, token) == [text |-> text, cpu |-> isCpu, token |-> token]
PowerPCLines ==
  {Line("processor\t: 0", FALSE, ""),
   Line("cpu\t\t: POWER9 (raw), altivec supported", TRUE, "POWER9"),
   Line("cpu\t\t: POWER8E, altivec supported", TRUE, "POWER8E"),
   Line("cpu:G5", TRUE, "G5"),
   Line("cpu\t\t: POWER10", TRUE, "POWER10"),
   Line("cpu\t:", TRUE, ""),
   Line("cpu MHz\t\t: 3000", FALSE, ""),
   Line(" cpu\t: POWER7", FALSE, ""),
   Line("model\t\t: cpu: A2", FALSE, ""),
   Line("", FALSE, "")}

RECURSIVE RenderLines(_)
RenderLines(layout) ==
  IF layout = <<>> THEN ""
  ELSE Head(layout).text \o "\n" \o RenderLines(Tail(layout))

\* the text of the lines; closed tells whether the last line ends in "\n"
LinesFile(layout, closed) ==
  LET t == RenderLines(layout)
  IN  [ok |-> TRUE, layout |-> layout,
       text |-> IF closed \/ t = "" THEN t ELSE SubSeq(t, 1, Len(t) - 1)]

PowerPCFiles ==
  {LinesFile(l, c) : l \in UNION {[1..k -> PowerPCLines] : k \in 0..MaxLines},
                     c \in BOOLEAN}
    \cup {Unreadable}

----------------------------------------------------------------------------
(* /proc/cpuinfo of an ARM host.  The layout names the values of the lines  *)
(* the decoders look for; "" stands for a line that is not there.  top      *)
(* tells whether the Hardware line comes first or last.                     *)

ARMImplementers == {"", "0x41", "0x51", "0x42"}
ARMParts == {"", "0xd07", "0xd03", "0xc0f", "0x205", "0x800", "0xc00", "0xfff"}
MSMHardware ==
  {"Qualcomm Technologies, Inc MSM8994", "Qualcomm Technologies, Inc MSM8996"}
ARMHardware ==
  MSMHardware \cup {"", "Qualcomm Technologies, Inc MSM8992",
                    "MSM8994 (Flattened Device Tree)"}
ARMFeatureLines ==
  {"", "half thumb fastmult vfp edsp neon vfpv3 tls vfpv4 idiva idivt",
   "fp asimd evtstrm aes pmull sha1 sha2 crc32", "fp asimd aes pmull sha1"}

KeyLine(key, value) == IF value = "" THEN "" ELSE key \o "\t: " \o value \o "\n"

ARMFile(l) ==
  [ok |-> TRUE, layout |-> l,
   text |-> (IF l.top THEN KeyLine("Hardware", l.hw) ELSE "")
              \o "processor\t: 0\n"
              \o KeyLine("Features", l.feat)
              \o KeyLine("CPU implementer", l.impl)
              \o "CPU architecture: 8\n"
              \o KeyLine("CPU part", l.part)
              \o "CPU revision\t: 2\n\n"
              \o (IF l.top THEN "" ELSE KeyLine("Hardware", l.hw))]

ARMFiles ==
  {ARMFile(l) : l \in [impl : ARMImplementers, part : ARMParts, hw : ARMHardware,
                       feat : ARMFeatureLines, top : BOOLEAN]}

\* /proc/cpuinfo of an ARM host with two kinds of cores: two processor
\* blocks, each with its implementer and part, and a Hardware line before
\* the blocks and one after them ("" for a line that is not there)
BigLittleFile(l) ==
  [ok |-> TRUE, layout |-> l,
   text |-> KeyLine("Hardware", l.hw1)
              \o "processor\t: 0\n"
              \o KeyLine("CPU implementer", l.impl1)
              \o KeyLine("CPU part", l.part1)
              \o "\nprocessor\t: 4\n"
              \o KeyLine("CPU implementer", l.impl2)
              \o KeyLine("CPU part", l.part2)
              \o "\n"
              \o KeyLine("Hardware", l.hw2)]

BigLittleFiles ==
  {BigLittleFile(l) :
     l \in [impl1 : ARMImplementers, impl2 : ARMImplementers,
            part1 : {"", "0xd07", "0xd03", "0xd03 ", "0x205", "0xfff"},
            part2 : {"", "0xd08", "0x800"},
            hw1 : {"", "Qualcomm Technologies, Inc MSM8994", "Generic DT based system"},
            hw2 : {"", "Qualcomm Technologies, Inc MSM8996", "Generic DT based system"}]}

\* a readable file without a byte
EmptyFile == [ok |-> TRUE, layout |-> <<>>, text |-> ""]

\* the build: for AArch64 or for 32-bit ARM
ARMHosts == [aarch64 : BOOLEAN]

----------------------------------------------------------------------------
(* /proc/cpuinfo of an S390x host.  The layout holds the features line (""  *)
(* when there is none) with vx, which tells that "vx" is one of its words;  *)
(* the text after "machine = " on the first processor line with id, the     *)
(* number it writes (at most 2^31 - 1; -1 when the text is no number of 32  *)
(* bits); field and first, which tell whether that line holds a machine     *)
(* field and whether it is there at all; and the machine of a second        *)
(* processor line ("" when there is none).                                  *)

S390xMachines ==
  {[machine |-> ToString(n), id |-> n] :
      n \in {0, 2816, 2817, 2826, 2827, 2963, 2964, 3905, 3906, 8561}}
    \cup {[machine |-> "0002964", id |-> 2964],
          [machine |-> "4294967295", id |-> 2147483647],
          [machine |-> "4294967296", id |-> -1],
          [machine |-> "2964 ", id |-> -1], [machine |-> "3906,", id |-> -1],
          [machine |-> "0xB94", id |-> -1], [machine |-> "", id |-> -1]}

S390xLayouts ==
  {[feat |-> f.feat, vx |-> f.vx, machine |-> m.machine, id |-> m.id,
    field |-> p[1], first |-> p[2], later |-> n] :
      f \in {[feat |-> "", vx |-> FALSE],
             [feat |-> "esan3 zarch stfle msa ldisp eimm dfp edat etf3eh highgprs te vx",
              vx |-> TRUE],
             [feat |-> "esan3 zarch stfle msa ldisp eimm dfp vx edat", vx |-> TRUE],
             [feat |-> "esan3 zarch stfle msa ldisp eimm dfp edat etf3eh highgprs te",
              vx |-> FALSE],
             [feat |-> "esan3 zarch vxd vxe", vx |-> FALSE]},
      m \in S390xMachines,
      p \in {<<TRUE, TRUE>>, <<FALSE, TRUE>>},
      n \in {"", "3906"}}
    \cup {[feat |-> f, vx |-> FALSE, machine |-> "", id |-> -1,
           field |-> FALSE, first |-> FALSE, later |-> ""] :
             f \in {"", "esan3 zarch vxd vxe"}}

ProcessorLine(n, machine) ==
  "processor " \o n \o ": version = FF,  identification = 0B8F67,  machine = "
    \o machine \o "\n"

S390xFile(l) ==
  [ok |-> TRUE, layout |-> l,
   text |-> "vendor_id       : IBM/S390\n# processors    : 2\n"
              \o (IF l.feat = "" THEN "" ELSE "features\t: " \o l.feat \o "\n")
              \o (IF ~l.first THEN ""
                  ELSE IF l.field THEN ProcessorLine("0", l.machine)
                  ELSE "processor 0: version = FF,  identification = 0B8F67\n")
              \o (IF l.later = "" THEN "" ELSE ProcessorLine("1", l.later))]

S390xFiles == {S390xFile(l) : l \in S390xLayouts} \cup {EmptyFile, Unreadable}

\* /proc/cpuinfo of an S390x host with up to two lines that start with
\* "features": for each its text ("" when it is not there), whether it
\* holds a colon and whether "vx" is one of its words; then one processor
\* line with its machine id
TwoFeaturesFiles ==
  {[ok |-> TRUE, layout |-> [first |-> a, second |-> b, id |-> n],
    text |-> "vendor_id       : IBM/S390\n"
               \o a.line \o b.line \o ProcessorLine("0", ToString(n))] :
     a \in {[line |-> "features\t: esan3 zarch vx\n", colon |-> TRUE, vx |-> TRUE],
            [line |-> "features\t: esan3 zarch\n", colon |-> TRUE, vx |-> FALSE],
            [line |-> "features vx\n", colon |-> FALSE, vx |-> TRUE],
            [line |-> "features\n", colon |-> FALSE, vx |-> FALSE]},
     b \in {[line |-> "", colon |-> FALSE, vx |-> FALSE],
            [line |-> "features\t: esan3 vx zarch\n", colon |-> TRUE, vx |-> TRUE],
            [line |-> "features\t: esan3 zarch\n", colon |-> TRUE, vx |-> FALSE]},
     n \in {2816, 2817, 2827, 2963, 2964, 3905, 3906}}

----------------------------------------------------------------------------
(* /proc/cpuinfo as every reader of it meets it: missing, empty, or one of  *)
(* four texts, one from each kind of host.                                  *)

AnyHostFiles ==
  {Unreadable, EmptyFile, FileOf(<<Pair("0", "0"), Pair("0", "1")>>),
   LinesFile(<<Line("cpu\t\t: POWER9 (raw), altivec supported", TRUE, "POWER9")>>,
             TRUE),
   ARMFile([impl |-> "0x41", part |-> "0xd07", hw |-> "", top |-> FALSE,
            feat |-> "fp asimd evtstrm aes pmull sha1 sha2 crc32"]),
   S390xFile([feat |-> "esan3 zarch vx", vx |-> TRUE, machine |-> "2964",
              id |-> 2964, field |-> TRUE, first |-> TRUE, later |-> ""])}

----------------------------------------------------------------------------
(* State before any call *)

IdleX86 ==
  name = "" /\ nameQ = {} /\ ret = "none" /\ featQ = {} /\ avail = [called |-> FALSE]
IdleFamilyModel == fm = [called |-> FALSE]
\* the static of getHostNumPhysicalCores before its initialization
NoNumCores == [guard |-> FALSE, value |-> 0]
\* no call of getHostNumPhysicalCores yet; asserts tells whether the build
\* keeps its assertions (NDEBUG undefined)
NoCalls(asserts) ==
  [asserts |-> asserts, rets |-> <<>>, read |-> <<>>, aborted |-> FALSE]
MaxThreads == 3
Threads == 1..MaxThreads
\* no thread has called getHostNumPhysicalCores yet
IdleThreads == thr = [t \in Threads |-> "idle"]
IdleCores ==
  file = Unreadable /\ NumCores = NoNumCores /\ cores = NoCalls(FALSE) /\ IdleThreads

----------------------------------------------------------------------------
(* Operations of the x86 decoder *)

DetectX86FamilyModel ==
  /\ ~fm.called
  /\ \E bf \in 0..15, xf \in ExtFamilies, bm \in 0..15, xm \in 0..15, rest \in RestBits :
       LET EAX == MkEAX(bf, xf, bm, xm, rest)
           r == detectX86FamilyModel(EAX)
       IN  fm' = [called |-> TRUE, bf |-> bf, xf |-> xf, bm |-> bm, xm |-> xm,
                  EAX |-> EAX, Family |-> r.Family, Model |-> r.Model]
  /\ UNCHANGED <<cpu, name, nameQ, FeatureMap, ret, featQ, file, NumCores, cores, thr, avail>>

GetHostCPUName ==
  /\ \E g \in StackGarbage :
       LET r == getHostCPUName(cpu, g[1], g[2])
       IN  name' = r.name /\ nameQ' = r.queried
  /\ UNCHANGED <<cpu, FeatureMap, ret, featQ, fm, file, NumCores, cores, thr, avail>>

\* getHostCPUFeatures does not ask isCpuIdSupported: on a processor without
\* the CPUID instruction its first query is an invalid opcode, and the call
\* ends in that trap ("fault") instead of returning
GetHostCPUFeatures ==
  /\ LET r == getHostCPUFeatures(cpu, FeatureMap)
     IN  IF cpu.cpuid /\ ~cpu.idSupported
         THEN FeatureMap' = FeatureMap /\ ret' = "fault" /\ featQ' = {"cpuid0"}
         ELSE /\ FeatureMap' = r.Features
              /\ ret' = (IF r.ret THEN "true" ELSE "false")
              /\ featQ' = r.queried
  /\ UNCHANGED <<cpu, name, nameQ, fm, file, NumCores, cores, thr, avail>>

\* getAvailableFeatures, as getHostCPUName calls it once leaf 1 is read; it
\* is not called when getHostCPUName returns before that
GetAvailableFeatures ==
  /\ IF isCpuIdSupported(cpu) /\ cpu.cpuid /\ GEq(cpu.MaxLeaf, Hex1)
     THEN LET r == getAvailableFeatures(cpu, cpu.L1.ECX, cpu.L1.EDX, cpu.MaxLeaf)
          IN  avail' = [called |-> TRUE, Features |-> r.Features,
                        Features2 |-> r.Features2, queried |-> r.queried]
     ELSE UNCHANGED avail
  /\ UNCHANGED <<cpu, name, nameQ, FeatureMap, ret, featQ, fm, file, NumCores,
                 cores, thr>>

----------------------------------------------------------------------------
(* Operations of the core counter *)

GetHostNumPhysicalCores ==
  /\ ~cores.aborted /\ Len(cores.rets) < MaxCalls
  /\ LET r == getHostNumPhysicalCores(NumCores, file)
     IN  IF r.assertFailed /\ cores.asserts
         THEN /\ cores' = [cores EXCEPT !.aborted = TRUE, !.read = Append(@, file)]
              /\ UNCHANGED NumCores
         ELSE /\ NumCores' = r.NumCores
              /\ cores' = [cores EXCEPT !.rets = Append(@, r.ret),
                             !.read = IF r.computed THEN Append(@, file) ELSE @]
  /\ UNCHANGED <<cpu, name, nameQ, FeatureMap, ret, featQ, fm, file, thr, avail>>

\* the host rewrites /proc/cpuinfo (a processor goes on or off line)
ChangeFile ==
  /\ \E f \in HotplugFiles \ {file} : file' = f
  /\ UNCHANGED <<cpu, name, nameQ, FeatureMap, ret, featQ, fm, NumCores, cores, thr, avail>>

----------------------------------------------------------------------------
(* getHostNumPhysicalCores called by several threads.  A thread is "idle"   *)
(* before its call, "init" while it runs the initializer of the static,     *)
(* "ret" when it is about to read the static and return, "done" after.      *)

ThreadEnter ==
  /\ ~cores.aborted
  /\ \E t \in Threads :
       /\ thr[t] = "idle"
       /\ LET g == StaticGuard(NumCores, \E u \in Threads : thr[u] = "init")
          IN  /\ g # "wait"
              /\ thr' = [thr EXCEPT ![t] = IF g = "init" THEN "init" ELSE "ret"]
  /\ UNCHANGED <<cpu, name, nameQ, FeatureMap, ret, featQ, fm, file, NumCores,
                 cores, avail>>

\* NumCores = computeHostNumPhysicalCores(), then the guard is released
ThreadInit ==
  /\ ~cores.aborted
  /\ \E t \in Threads :
       /\ thr[t] = "init"
       /\ LET r == computeHostNumPhysicalCores(file)
          IN  IF r.assertFailed /\ cores.asserts
              THEN /\ cores' = [cores EXCEPT !.aborted = TRUE,
                                              !.read = Append(@, file)]
                   /\ UNCHANGED <<NumCores, thr>>
              ELSE /\ NumCores' = [guard |-> TRUE, value |-> r.ret]
                   /\ cores' = [cores EXCEPT !.read = Append(@, file)]
                   /\ thr' = [thr EXCEPT ![t] = "ret"]
  /\ UNCHANGED <<cpu, name, nameQ, FeatureMap, ret, featQ, fm, file, avail>>

\* return NumCores;
ThreadReturn ==
  /\ ~cores.aborted
  /\ \E t \in Threads :
       /\ thr[t] = "ret"
       /\ cores' = [cores EXCEPT !.rets = Append(@, NumCores.value)]
       /\ thr' = [thr EXCEPT ![t] = "done"]
  /\ UNCHANGED <<cpu, name, nameQ, FeatureMap, ret, featQ, fm, file, NumCores,
                 avail>>

----------------------------------------------------------------------------
(* Operations of the /proc/cpuinfo name decoders *)

\* getHostCPUName (Linux, PowerPC)
GetHostCPUNamePowerPC ==
  /\ name' = getHostCPUNameForPowerPC(ContentOf(file))
  /\ UNCHANGED <<cpu, nameQ, FeatureMap, ret, featQ, fm, file, NumCores, cores,
                 thr, avail>>

\* getHostCPUName (Linux, ARM and AArch64)
GetHostCPUNameARM ==
  /\ name' = getHostCPUNameForARM(ContentOf(file))
  /\ UNCHANGED <<cpu, nameQ, FeatureMap, ret, featQ, fm, file, NumCores, cores,
                 thr, avail>>

\* getHostCPUFeatures (Linux, ARM and AArch64)
GetHostCPUFeaturesARM ==
  /\ LET r == getHostCPUFeaturesARM(file, cpu.aarch64, FeatureMap)
     IN  /\ FeatureMap' = r.Features
         /\ ret' = (IF r.ret THEN "true" ELSE "false")
  /\ UNCHANGED <<cpu, name, nameQ, featQ, fm, file, NumCores, cores, thr, avail>>

\* getHostCPUName (Linux, S390x)
GetHostCPUNameS390x ==
  /\ name' = getHostCPUNameForS390x(ContentOf(file))
  /\ UNCHANGED <<cpu, nameQ, FeatureMap, ret, featQ, fm, file, NumCores, cores,
                 thr, avail>>

InitFamilyModel ==
  cpu = BareHost /\ FeatureMap = NoFeatures /\ IdleX86 /\ IdleFamilyModel /\ IdleCores
NextFamilyModel == DetectX86FamilyModel
SpecFamilyModel == InitFamilyModel /\ [][NextFamilyModel]_vars

InitIdentity ==
  cpu \in IdentityHosts /\ FeatureMap = NoFeatures /\ IdleX86 /\ IdleFamilyModel
    /\ IdleCores
NextIdentity == GetHostCPUName
SpecIdentity == InitIdentity /\ [][NextIdentity]_vars

InitFeatures ==
  /\ \E s \in (FeatureHosts \X {NoFeatures}) \cup (NoLeafHosts \X CallerMaps) :
       cpu = s[1] /\ FeatureMap = s[2]
  /\ IdleX86 /\ IdleFamilyModel /\ IdleCores
NextFeatures == GetHostCPUName \/ GetHostCPUFeatures
SpecFeatures == InitFeatures /\ [][NextFeatures]_vars

InitCores ==
  /\ cpu = BareHost /\ FeatureMap = NoFeatures /\ IdleX86 /\ IdleFamilyModel
  /\ file \in CpuinfoFiles /\ NumCores = NoNumCores /\ IdleThreads
  /\ \E a \in BOOLEAN : cores = NoCalls(a)
NextCores == GetHostNumPhysicalCores
SpecCores == InitCores /\ [][NextCores]_vars

InitCache ==
  /\ cpu = BareHost /\ FeatureMap = NoFeatures /\ IdleX86 /\ IdleFamilyModel
  /\ file \in HotplugFiles /\ NumCores = NoNumCores /\ IdleThreads
  /\ \E a \in BOOLEAN : cores = NoCalls(a)
NextCache == GetHostNumPhysicalCores \/ ChangeFile
SpecCache == InitCache /\ [][NextCache]_vars

InitThreads ==
  /\ cpu = BareHost /\ FeatureMap = NoFeatures /\ IdleX86 /\ IdleFamilyModel
  /\ file \in HotplugFiles /\ NumCores = NoNumCores /\ IdleThreads
  /\ \E a \in BOOLEAN : cores = NoCalls(a)
NextThreads == ThreadEnter \/ ThreadInit \/ ThreadReturn \/ ChangeFile
SpecThreads == InitThreads /\ [][NextThreads]_vars

InitPowerPC ==
  /\ cpu = BareHost /\ FeatureMap = NoFeatures /\ IdleX86 /\ IdleFamilyModel
  /\ file \in PowerPCFiles /\ NumCores = NoNumCores /\ IdleThreads
  /\ cores = NoCalls(FALSE)
NextPowerPC == GetHostCPUNamePowerPC
SpecPowerPC == InitPowerPC /\ [][NextPowerPC]_vars

InitARM ==
  /\ cpu \in ARMHosts /\ FeatureMap = NoFeatures /\ IdleX86 /\ IdleFamilyModel
  /\ file \in ARMFiles \cup {EmptyFile, Unreadable}
  /\ NumCores = NoNumCores /\ IdleThreads /\ cores = NoCalls(FALSE)
NextARM == GetHostCPUNameARM \/ GetHostCPUFeaturesARM
SpecARM == InitARM /\ [][NextARM]_vars

InitS390x ==
  /\ cpu = BareHost /\ FeatureMap = NoFeatures /\ IdleX86 /\ IdleFamilyModel
  /\ file \in S390xFiles
  /\ NumCores = NoNumCores /\ IdleThreads /\ cores = NoCalls(FALSE)
NextS390x == GetHostCPUNameS390x
SpecS390x == InitS390x /\ [][NextS390x]_vars

InitProcCpuinfo ==
  /\ cpu \in ARMHosts /\ FeatureMap = NoFeatures /\ IdleX86 /\ IdleFamilyModel
  /\ file \in AnyHostFiles
  /\ NumCores = NoNumCores /\ IdleThreads /\ cores = NoCalls(FALSE)
NextProcCpuinfo ==
  \/ GetHostCPUNamePowerPC
  \/ GetHostCPUNameARM
  \/ GetHostCPUNameS390x
  \/ GetHostCPUFeaturesARM
  \/ GetHostNumPhysicalCores
SpecProcCpuinfo == InitProcCpuinfo /\ [][NextProcCpuinfo]_vars

InitI386 ==
  /\ cpu \in I386Hosts /\ FeatureMap \in CallerMaps /\ IdleX86 /\ IdleFamilyModel
  /\ IdleCores
NextI386 == GetHostCPUName \/ GetHostCPUFeatures
SpecI386 == InitI386 /\ [][NextI386]_vars

InitCascade ==
  /\ cpu \in CascadeHosts /\ FeatureMap = NoFeatures /\ IdleX86 /\ IdleFamilyModel
  /\ IdleCores
NextCascade == GetHostCPUName
SpecCascade == InitCascade /\ [][NextCascade]_vars

InitBitmask ==
  /\ cpu \in FeatureHosts /\ FeatureMap = NoFeatures /\ IdleX86 /\ IdleFamilyModel
  /\ IdleCores
NextBitmask == GetAvailableFeatures
SpecBitmask == InitBitmask /\ [][NextBitmask]_vars

\* the two x86 feature decoders on one host: the bitmask getHostCPUName
\* computes and the map getHostCPUFeatures fills
InitBothDecoders ==
  /\ cpu \in DecoderHosts /\ FeatureMap = NoFeatures /\ IdleX86 /\ IdleFamilyModel
  /\ IdleCores
NextBothDecoders == GetAvailableFeatures \/ GetHostCPUFeatures
SpecBothDecoders == InitBothDecoders /\ [][NextBothDecoders]_vars

InitBigLittle ==
  /\ cpu \in ARMHosts /\ FeatureMap = NoFeatures /\ IdleX86 /\ IdleFamilyModel
  /\ file \in BigLittleFiles
  /\ NumCores = NoNumCores /\ IdleThreads /\ cores = NoCalls(FALSE)
NextBigLittle == GetHostCPUNameARM
SpecBigLittle == InitBigLittle /\ [][NextBigLittle]_vars

InitTwoFeatures ==
  /\ cpu = BareHost /\ FeatureMap = NoFeatures /\ IdleX86 /\ IdleFamilyModel
  /\ file \in TwoFeaturesFiles
  /\ NumCores = NoNumCores /\ IdleThreads /\ cores = NoCalls(FALSE)
NextTwoFeatures == GetHostCPUNameS390x
SpecTwoFeatures == InitTwoFeatures /\ [][NextTwoFeatures]_vars

----------------------------------------------------------------------------
(* Properties of the x86 decoder *)

\* the host's identity as getHostCPUName sees it
HostIsIntel == cpu.Vendor = SigIntel
HostIsAMD == cpu.Vendor = SigAMD
HostFamily == detectX86FamilyModel(cpu.L1.EAX).Family
HostModel == detectX86FamilyModel(cpu.L1.EAX).Model
HostBrand == Field(cpu.L1.EBX, 0, 8)
IntelFamilies == {3, 4, 5, 6, 15}
AMDFamilies == {4, 5, 6, 15, 16, 20, 21, 22, 23}

\* C1: getHostCPUName returns "generic" for every (vendor, family, model) no
\* table entry matches: a vendor that is neither Intel nor AMD, an Intel family
\* outside {3, 4, 5, 6, 15}, an AMD family outside {4, 5, 6, 15, 16, 20..23}.
C1_UnmatchedIsGeneric ==
  (/\ name # ""
   /\ \/ ~HostIsIntel /\ ~HostIsAMD
      \/ HostIsIntel /\ HostFamily \notin IntelFamilies
      \/ HostIsAMD /\ HostFamily \notin AMDFamilies)
    => name = "generic"

\* leaf 0 is unavailable or reports a maximum leaf below 1
NoLeaf1 == ~cpu.cpuid \/ cpu.MaxLeaf = {}

\* C2: when leaf 0 is unavailable or its maximum leaf is below 1, every call of
\* getHostCPUName returns "generic", every call of getHostCPUFeatures returns
\* false and leaves the caller's map as it was, and neither asks for anything
\* but leaf 0 (no leaf 1, 7, 0xd, 0x8000000x, no XGETBV).
C2_NoLeafFallback ==
  [][NoLeaf1 =>
       /\ name' # "" => name' = "generic" /\ nameQ' \subseteq {"cpuid0"}
       /\ ret' # "none" => ret' = "false" /\ featQ' \subseteq {"cpuid0"}
       /\ FeatureMap' = FeatureMap]_vars

C2_Witness ==
  /\ cpu.cpuid /\ cpu.MaxLeaf = {} /\ cpu.L1.ECX = AllL1ECX
  /\ name = "generic" /\ nameQ = {"cpuid0"}
  /\ ret = "false" /\ featQ = {"cpuid0"}
  /\ FeatureMap = [avx |-> TRUE, crc |-> FALSE]

\* C3: with the Intel signature and a non-zero brand id, getHostCPUName returns
\* "generic" for every family, model and feature set.
C3_BrandedIntelIsGeneric ==
  (name # "" /\ HostIsIntel /\ HostBrand # 0) => name = "generic"

AVX512Keys ==
  {"avx512f", "avx512dq", "avx512ifma", "avx512pf", "avx512er", "avx512cd",
   "avx512bw", "avx512vl", "avx512vbmi", "avx512vpopcntdq"}
AVXKeys ==
  {"avx", "fma", "f16c", "xsave", "avx2", "xop", "fma4", "xsaveopt", "xsavec",
   "xsaves"} \cup AVX512Keys

\* C4: after getHostCPUFeatures, when XGETBV is unavailable or XCR0 lacks bit 1
\* or bit 2, "avx" and every AVX-dependent entry is false whatever CPUID
\* reports; and every avx512* entry is false unless XCR0 has bits 5, 6 and 7.
C4_AVXGating ==
  ret = "true" =>
    /\ (~cpu.xgetbv \/ ~({1, 2} \subseteq cpu.XCR0)) =>
         \A k \in AVXKeys : ~FeatureMap[k]
    /\ ~({5, 6, 7} \subseteq cpu.XCR0) => \A k \in AVX512Keys : ~FeatureMap[k]

C4_Witness ==
  /\ ret = "true" /\ cpu.xgetbv /\ cpu.XCR0 = {0, 1, 5, 6, 7}
  /\ cpu.L1.ECX = AllL1ECX /\ cpu.L7.EBX = AllL7EBX /\ cpu.MaxLeaf = HexD
  /\ cpu.MaxExt = Hex80000008 /\ cpu.X1.ECX = AllX1ECX
  /\ FeatureMap["sse4.2"] /\ ~FeatureMap["avx"]

\* the names the family-6 switch gives its listed models
C5_Family6Name(m) ==
  CASE m = 1 -> "pentiumpro"
    [] m \in {3, 5, 6} -> "pentium2"
    [] m \in {7, 8, 10, 11} -> "pentium3"
    [] m \in {9, 13, 21} -> "pentium-m"
    [] m = 14 -> "yonah"
    [] m \in {15, 22} -> "core2"
    [] m \in {23, 29} -> "penryn"
    [] m \in {26, 30, 31, 46} -> "nehalem"
    [] m \in {37, 44, 47} -> "westmere"
    [] m \in {42, 45} -> "sandybridge"
    [] m \in {58, 62} -> "ivybridge"
    [] m \in {60, 63, 69, 70} -> "haswell"
    [] m \in {61, 71, 79, 86} -> "broadwell"
    [] m \in {78, 94, 142, 158} -> "skylake"
    [] m = 85 -> "skylake-avx512"
    [] m \in {28, 38, 39, 53, 54} -> "bonnell"
    [] m \in {55, 74, 76, 77, 90, 93} -> "silvermont"
    [] m \in {92, 95} -> "goldmont"
    [] m = 87 -> "knl"
    [] OTHER -> ""

\* C5: for the tuples of the fixed tables the name is the table's, whatever
\* the feature bits: Intel, brand id 0, family 6 and a listed model; AMD
\* family 23 "znver1", 22 "btver2", 20 "btver1", 16 "amdfam10".
C5_TableNames ==
  name # "" =>
    /\ (HostIsIntel /\ HostBrand = 0 /\ HostFamily = 6
          /\ C5_Family6Name(HostModel) # "") => name = C5_Family6Name(HostModel)
    /\ (HostIsAMD /\ HostFamily = 23) => name = "znver1"
    /\ (HostIsAMD /\ HostFamily = 22) => name = "btver2"
    /\ (HostIsAMD /\ HostFamily = 20) => name = "btver1"
    /\ (HostIsAMD /\ HostFamily = 16) => name = "amdfam10"

\* a Haswell (model 0x3C) whose feature bits alone would name a Skylake server
C5_Witness ==
  /\ HostIsIntel /\ HostBrand = 0 /\ HostFamily = 6 /\ HostModel = 60
  /\ cpu.L7.EBX = AllL7EBX /\ cpu.XCR0 = AllXCR0
  /\ name = "haswell"

\* C6: Family is the base family (bits 8-11) plus the extended family (bits
\* 20-27) only when the base family is 0xF; Model is the base model (bits 4-7)
\* plus 16 times the extended model (bits 16-19) only when the base family is
\* 6 or 0xF; for any other base family the extended fields are ignored.
C6_FamilyModelRule ==
  fm.called =>
    /\ fm.Family = fm.bf + (IF fm.bf = 15 THEN fm.xf ELSE 0)
    /\ fm.Model = fm.bm + (IF fm.bf \in {6, 15} THEN 16 * fm.xm ELSE 0)

C6_Witness ==
  /\ fm.called /\ fm.bf = 5 /\ fm.xf = 3 /\ fm.bm = 2 /\ fm.xm = 7
  /\ fm.Family = 5 /\ fm.Model = 2

\* 0x000906EA
EAX906EA == WordOf(591594)

\* C7 as stated: EAX = 0x000906EA yields family 6 and model 0x9A.
C7_Original ==
  (fm.called /\ fm.EAX = EAX906EA) => fm.Family = 6 /\ fm.Model = 154

\* C7 (amended): EAX = 0x000906EA yields family 6 and model 0x9E: its base
\* model (bits 4-7) is 0xE, and 0xA is its stepping (bits 0-3).
C7_Decodes906EA ==
  (fm.called /\ fm.EAX = EAX906EA) => fm.Family = 6 /\ fm.Model = 158

C7_Witness == fm.called /\ fm.EAX = EAX906EA /\ fm.bm = 14 /\ fm.xm = 9


----------------------------------------------------------------------------
(* Properties of the core counter *)

\* the file the first call read, once a call has read it
FirstRead == cores.read[1]
\* the calls that returned so far
Returned == 1..Len(cores.rets)
IsPair(b) == b.kind \in {"pc", "cp"}
\* every block of the layout is a complete pair with values among tokens, or
\* lines of other keys
PairsOf(layout, tokens) ==
  \A i \in 1..Len(layout) :
    \/ layout[i] \in NoiseBlocks
    \/ IsPair(layout[i]) /\ layout[i].p \in tokens /\ layout[i].c \in tokens
\* the distinct (physical id, core id) pairs the layout writes
DistinctPairs(layout) ==
  {<<layout[i].p, layout[i].c>> : i \in {j \in 1..Len(layout) : IsPair(layout[j])}}
\* a first call over a readable file of complete pairs returned their number
CountsPairs(tokens) ==
  (cores.read # <<>> /\ FirstRead.ok /\ PairsOf(FirstRead.layout, tokens))
    => /\ ~cores.aborted
       /\ cores.rets # <<>>
       /\ cores.rets[1] = Cardinality(DistinctPairs(FirstRead.layout))

\* C8: every value getHostNumPhysicalCores returns on the Linux/x86-64 path is
\* -1 or at least 1, whatever /proc/cpuinfo holds and whether or not it can
\* be read.
C8_MinusOneOrPositive ==
  \A i \in Returned : cores.rets[i] = -1 \/ cores.rets[i] >= 1

\* C9 as stated: for a readable file whose physical id and core id lines carry
\* non-negative decimal values of any size and come in complete pairs, the
\* count returned is the number of distinct pairs.
C9_Original == CountsPairs({"0", "1", "2147483648"})

\* C9: for a readable file whose physical id and core id lines carry
\* non-negative decimal values that fit an int and come in complete pairs (in
\* either order within a pair), the count returned is the number of distinct
\* pairs, however often a pair is repeated; lines of other keys are ignored
\* and no assertion fails.
C9_CountsDistinctPairs == CountsPairs({"0", "1"})

\* a file of three complete pairs, one of them written twice and one written
\* core id first, with a line of another key, was counted as two
C9_Witness ==
  /\ cores.rets # <<>> /\ cores.rets[1] = 2
  /\ FirstRead.ok /\ PairsOf(FirstRead.layout, {"0", "1"})
  /\ Len(FirstRead.layout) = MaxBlocks
  /\ \E i, j \in 1..Len(FirstRead.layout) :
       /\ i < j
       /\ FirstRead.layout[i].kind = "pc" /\ FirstRead.layout[j].kind = "cp"
       /\ FirstRead.layout[i].p = FirstRead.layout[j].p
       /\ FirstRead.layout[i].c = FirstRead.layout[j].c
  /\ \E k \in 1..Len(FirstRead.layout) : IsPair(FirstRead.layout[k]) /\ FirstRead.layout[k].c = "1"

\* C10: once a call of getHostNumPhysicalCores has returned, every call
\* returns the value of the first one and /proc/cpuinfo has been read exactly
\* once, also when the file has changed since.
C10_WriteOnce ==
  cores.rets # <<>> =>
    /\ Len(cores.read) = 1
    /\ NumCores = [guard |-> TRUE, value |-> cores.rets[1]]
    /\ \A i \in Returned : cores.rets[i] = cores.rets[1]

\* a second call returned after the file had changed to one that would be
\* counted differently
C10_Witness ==
  /\ Len(cores.rets) = 2
  /\ file # FirstRead
  /\ computeHostNumPhysicalCores(file).ret # cores.rets[1]

\* C11: with several threads making their first call at once,
\* computeHostNumPhysicalCores runs at most once, no thread gets to its return
\* before the static has been written, and all threads return one value.
C11_ComputedOnce ==
  /\ Len(cores.read) <= 1
  /\ \A t \in Threads : thr[t] \in {"ret", "done"} => NumCores.guard
  /\ \A i \in Returned : cores.rets[i] = NumCores.value

\* every thread has returned, one of them after waiting for the initializer,
\* and the file has changed since it was read
C11_Witness ==
  /\ \A t \in Threads : thr[t] = "done"
  /\ Len(cores.rets) = MaxThreads /\ cores.rets[MaxThreads] = 2
  /\ file = Unreadable

\* C12: whatever /proc/cpuinfo holds, also two physical id lines with no core
\* id line between them (or the reverse), the scan reaches the end of the
\* file without an assertion failing.
C12_NoAssertionFails == cores.read # <<>> => ~cores.aborted

\* the feature bitmask getHostCPUName decodes from the host
HostBitmask == getAvailableFeatures(cpu, cpu.L1.ECX, cpu.L1.EDX, cpu.MaxLeaf)
\* the bit of feature f in the two words of the bitmask
HostHas(f) ==
  IF f < 32 THEN f \in HostBitmask.Features ELSE (f - 32) \in HostBitmask.Features2

\* C18: for an Intel host of family 6 with brand id 0 and a model the table
\* does not list, the name is the one of the first rung that holds, in this
\* order: AVX512F ("skylake-avx512" with AVX512VL, else "knl"), CLFLUSHOPT
\* ("goldmont" with SHA, else "skylake"), ADX "broadwell", AVX2 "haswell",
\* AVX "sandybridge", SSE4.2 ("silvermont" with MOVBE, else "nehalem"),
\* SSE4.1 "penryn", SSSE3 ("bonnell" with MOVBE, else "core2"), EM64T
\* "x86-64", SSE2 "pentium-m", SSE "pentium3", MMX "pentium2", and
\* "pentiumpro" when no rung holds.
C18_GuessCascade ==
  (name # "" /\ HostIsIntel /\ HostFamily = 6 /\ HostModel = 0 /\ HostBrand = 0) =>
    name =
      CASE HostHas(FEATURE_AVX512F) ->
             (IF HostHas(FEATURE_AVX512VL) THEN "skylake-avx512" ELSE "knl")
        [] ~HostHas(FEATURE_AVX512F) /\ HostHas(FEATURE_CLFLUSHOPT) ->
             (IF HostHas(FEATURE_SHA) THEN "goldmont" ELSE "skylake")
        [] OTHER ->
             IF HostHas(FEATURE_ADX) THEN "broadwell"
             ELSE IF HostHas(FEATURE_AVX2) THEN "haswell"
             ELSE IF HostHas(FEATURE_AVX) THEN "sandybridge"
             ELSE IF HostHas(FEATURE_SSE4_2)
                  THEN (IF HostHas(FEATURE_MOVBE) THEN "silvermont" ELSE "nehalem")
             ELSE IF HostHas(FEATURE_SSE4_1) THEN "penryn"
             ELSE IF HostHas(FEATURE_SSSE3)
                  THEN (IF HostHas(FEATURE_MOVBE) THEN "bonnell" ELSE "core2")
             ELSE IF HostHas(FEATURE_EM64T) THEN "x86-64"
             ELSE IF HostHas(FEATURE_SSE2) THEN "pentium-m"
             ELSE IF HostHas(FEATURE_SSE) THEN "pentium3"
             ELSE IF HostHas(FEATURE_MMX) THEN "pentium2"
             ELSE "pentiumpro"
\* ADX wins over AVX2, AVX and everything below it
C18_Witness ==
  /\ name = "broadwell" /\ HostIsIntel /\ HostFamily = 6 /\ HostModel = 0
  /\ HostBrand = 0
  /\ HostHas(FEATURE_ADX) /\ HostHas(FEATURE_AVX2) /\ HostHas(FEATURE_AVX)
  /\ HostHas(FEATURE_SSE4_2) /\ HostHas(FEATURE_MOVBE) /\ HostHas(FEATURE_EM64T)
  /\ ~HostHas(FEATURE_CLFLUSHOPT) /\ ~HostHas(FEATURE_AVX512F)

\* CPUID reports OSXSAVE and AVX, XGETBV can be executed, and the system
\* saves the SSE and the AVX registers (XCR0 bits 1 and 2)
HostHasAVX ==
  /\ {27, 28} \subseteq cpu.L1.ECX
  /\ cpu.xgetbv /\ {1, 2} \subseteq cpu.XCR0
\* the AVX512 bits of the bitmask
AVX512Bits ==
  {FEATURE_AVX512F, FEATURE_AVX512VL, FEATURE_AVX512BW, FEATURE_AVX512DQ,
   FEATURE_AVX512CD, FEATURE_AVX512ER, FEATURE_AVX512PF, FEATURE_AVX512VBMI,
   FEATURE_AVX512IFMA, FEATURE_AVX5124VNNIW, FEATURE_AVX5124FMAPS,
   FEATURE_AVX512VPOPCNTDQ}

\* C19: in the bitmask of getAvailableFeatures the AVX2, AVX512, FMA4 and
\* XOP bits are set only on a host with AVX (CPUID bits and XCR0 bits 1 and
\* 2), and the AVX512 bits only when XCR0 bits 5, 6 and 7 are set as well.
C19_BitmaskGatedByAVX ==
  avail.called =>
    /\ \A f \in AVX512Bits \cup {FEATURE_AVX2, FEATURE_FMA4, FEATURE_XOP} :
         f \in avail.Features => HostHasAVX
    /\ \A f \in AVX512Bits :
         f \in avail.Features => {5, 6, 7} \subseteq cpu.XCR0

\* C20 as stated: FEATURE_AVX is set exactly when leaf 1 ECX bits 26 and 27
\* are both set, XGETBV is available and XCR0 bits 1 and 2 are set; XGETBV
\* is not executed when the two ECX bits are not both set.
C20_Original ==
  avail.called =>
    /\ FEATURE_AVX \in avail.Features <=>
         ({26, 27} \subseteq cpu.L1.ECX /\ cpu.xgetbv /\ {1, 2} \subseteq cpu.XCR0)
    /\ ~({26, 27} \subseteq cpu.L1.ECX) => "xgetbv" \notin avail.queried

\* C20: FEATURE_AVX is set exactly when leaf 1 ECX bits 27 and 28 (OSXSAVE
\* and AVX) are both set, XGETBV is available and XCR0 bits 1 and 2 are
\* set; getX86XCR0 is called exactly when the two ECX bits are both set.
C20_AVXFromBits27And28 ==
  avail.called =>
    /\ FEATURE_AVX \in avail.Features <=> HostHasAVX
    /\ "xgetbv" \in avail.queried <=> {27, 28} \subseteq cpu.L1.ECX
\* bits 26 and 27 are set and bit 28 is not: no query of XCR0, no AVX
C20_Witness ==
  /\ avail.called /\ {26, 27} \subseteq cpu.L1.ECX /\ 28 \notin cpu.L1.ECX
  /\ cpu.xgetbv /\ {1, 2} \subseteq cpu.XCR0
  /\ FEATURE_AVX \notin avail.Features /\ "xgetbv" \notin avail.queried

\* C21: for an AMD host of family 21 the name is "bdver1" for the models
\* 0x00-0x0F, "bdver2" for 0x10-0x1F, "bdver3" for 0x30-0x3F, "bdver4" for
\* 0x60-0x7F, and "bdver1" for every other model (0x20-0x2F, 0x40-0x5F,
\* 0x80-0xFF).
C21_Family21Ranges ==
  (name # "" /\ HostIsAMD /\ HostFamily = 21) =>
    name = (IF HostModel \in 16..31 THEN "bdver2"
            ELSE IF HostModel \in 48..63 THEN "bdver3"
            ELSE IF HostModel \in 96..127 THEN "bdver4"
            ELSE "bdver1")

\* C17: on a 32-bit x86 processor without the CPUID instruction neither
\* getHostCPUName nor getHostCPUFeatures executes CPUID: the first returns
\* "generic" and the second returns false.
C17_NoCpuidNoQuery ==
  ~isCpuIdSupported(cpu) =>
    /\ name # "" => (name = "generic" /\ nameQ = {})
    /\ ret # "none" => (ret = "false" /\ featQ = {})

----------------------------------------------------------------------------
(* Properties of the /proc/cpuinfo name decoders *)

\* the places of the lines of the file that are "cpu" lines
CpuLines == {i \in DOMAIN file.layout : file.layout[i].cpu}
FirstCpuLine == CHOOSE i \in CpuLines : \A j \in CpuLines : i <= j

\* C16: the PowerPC name comes from the first line that begins with "cpu",
\* blanks and a colon, through the token that follows: "POWER9" gives
\* "pwr9", "POWER8E" gives "pwr8", an empty or unlisted token gives
\* "generic", and so does a text without such a line (the empty text, a
\* "cpu MHz" line, a "cpu" that is not at the start of its line); a later
\* "cpu" line changes nothing.
C16_FirstCpuLineNames ==
  name # "" =>
    IF CpuLines = {} THEN name = "generic"
    ELSE LET token == file.layout[FirstCpuLine].token
         IN  /\ name = PowerPCName(token)
             /\ token = "POWER9" => name = "pwr9"
             /\ token = "POWER8E" => name = "pwr8"
             /\ token = "G5" => name = "g5"
             /\ token \in {"", "POWER10"} => name = "generic"
C16_Witness ==
  /\ name = "pwr8" /\ Len(file.layout) = 3
  /\ ~file.layout[1].cpu /\ file.layout[3].token = "POWER9"
\* C14: with implementer 0x41 a Hardware value that ends in "MSM8994" or
\* "MSM8996" gives "cortex-a53" whatever the CPU part, and without a
\* "CPU part" line too; with implementer 0x51 the name is the one of the
\* Qualcomm part table whatever the Hardware value.
C14_MSMOverride ==
  (name # "" /\ file.ok /\ file.layout # <<>>) =>
    LET l == file.layout
    IN  /\ (l.impl = "0x41" /\ l.hw \in MSMHardware) => name = "cortex-a53"
        /\ l.impl = "0x51" =>
             /\ name = (IF l.part = "" THEN "generic" ELSE QualcommPartName(l.part))
             /\ l.part = "0x205" => name = "kryo"
             /\ l.part = "0xc00" => name = "falkor"
             /\ l.part \in {"", "0xd07", "0xd03"} => name = "generic"
C14_Witness ==
  /\ name = "cortex-a53" /\ file.ok /\ file.layout # <<>>
  /\ file.layout.impl = "0x41" /\ file.layout.part = ""
  /\ file.layout.hw = "Qualcomm Technologies, Inc MSM8996"
\* C15: the S390x name follows the machine id of the first "processor "
\* line and the presence of the word "vx" among the features: "z14" from
\* 3906 with vx, "z13" from 2964 with vx, "zEC12" from 2827, "z196" from
\* 2817, else "generic"; without vx every id from 2827 gives "zEC12".
\* Without such a line, without a "machine = " field on it, or with a text
\* after the field that is no decimal number, the name is "generic"; a
\* later "processor " line changes nothing.
C15_MachineThresholds ==
  (name # "" /\ file.ok /\ file.layout # <<>>) =>
    LET l == file.layout
    IN  IF ~l.first \/ ~l.field \/ l.id < 0 THEN name = "generic"
        ELSE /\ name = (IF l.id >= 3906 /\ l.vx THEN "z14"
                        ELSE IF l.id >= 2964 /\ l.vx THEN "z13"
                        ELSE IF l.id >= 2827 THEN "zEC12"
                        ELSE IF l.id >= 2817 THEN "z196"
                        ELSE "generic")
             /\ (~l.vx /\ l.id >= 2827) => name = "zEC12"
C15_Witness ==
  /\ name = "zEC12" /\ file.ok /\ file.layout # <<>>
  /\ file.layout.id = 3906 /\ ~file.layout.vx /\ file.layout.feat # ""
  /\ file.layout.later = "3906"
\* what a file of two processor blocks holds: the value of the last
\* implementer line, of the last Hardware line and of the first part line
LastImplementer ==
  IF file.layout.impl2 # "" THEN file.layout.impl2 ELSE file.layout.impl1
LastHardware == IF file.layout.hw2 # "" THEN file.layout.hw2 ELSE file.layout.hw1
FirstPart == IF file.layout.part1 # "" THEN file.layout.part1 ELSE file.layout.part2
\* the name of the part in the table of the implementer
PartLookup ==
  IF LastImplementer = "0x41" /\ FirstPart # "" THEN ARMPartName(FirstPart)
  ELSE IF LastImplementer = "0x51" /\ FirstPart # "" THEN QualcommPartName(FirstPart)
  ELSE "generic"

\* C22 as stated: the implementer is the one of the last "CPU implementer"
\* line and the part the one of the first "CPU part" line; implementer 0x41
\* looks the part up in the ARM table and 0x51 in the Qualcomm table; every
\* other implementer, a missing part and an unlisted part give "generic".
C22_Original == name # "" => name = PartLookup

\* C22: the same, except that with implementer 0x41 a value of the last
\* "Hardware" line that ends in "MSM8994" or "MSM8996" gives "cortex-a53"
\* before the part is looked up.
C22_LastImplementerFirstPart ==
  name # "" =>
    /\ name = (IF LastImplementer = "0x41" /\ LastHardware \in MSMHardware
               THEN "cortex-a53" ELSE PartLookup)
    /\ (FirstPart = "0xd03 " /\ LastHardware \notin MSMHardware) => name = "generic"
    /\ LastImplementer \notin {"0x41", "0x51"} => name = "generic"
\* the implementer of the second block with the part of the first
C22_Witness ==
  /\ name = "kryo" /\ file.layout.impl1 = "0x41" /\ file.layout.impl2 = "0x51"
  /\ file.layout.part1 = "0x205" /\ file.layout.part2 = "0x800"

\* the S390x name for a machine id and a vector support
NameOfMachine(id, vx) ==
  IF id >= 3906 /\ vx THEN "z14"
  ELSE IF id >= 2964 /\ vx THEN "z13"
  ELSE IF id >= 2827 THEN "zEC12"
  ELSE IF id >= 2817 THEN "z196"
  ELSE "generic"

\* C23 as stated: vector support comes from the first line that starts with
\* "features" only; a "vx" on a later such line never enables "z13" or
\* "z14", also when the first one holds no colon.
C23_Original ==
  name # "" =>
    name = NameOfMachine(file.layout.id,
                         file.layout.first.colon /\ file.layout.first.vx)

\* C23: vector support comes from the first line that starts with
\* "features" and holds a colon; a "vx" on a later such line never enables
\* "z13" or "z14", but a first "features" line without a colon is passed
\* over and the next one is read.
C23_FirstFeaturesLineWithColon ==
  name # "" =>
    LET l == file.layout
    IN  name = NameOfMachine(l.id, IF l.first.colon THEN l.first.vx ELSE l.second.vx)
\* the first line has a colon and no vx, the second has vx: no vector name
C23_Witness ==
  /\ name = "zEC12" /\ file.layout.id = 3906
  /\ file.layout.first.colon /\ ~file.layout.first.vx /\ file.layout.second.vx

----------------------------------------------------------------------------
(* Properties of the readers of /proc/cpuinfo *)

\* C13: every reader of /proc/cpuinfo gives for a file that cannot be read
\* what it gives for a readable file without a byte: the three name
\* decoders their name, the ARM getHostCPUFeatures its return flag, and the
\* core counter its count.
C13_UnavailableAsEmpty ==
  file.text = "" =>
    /\ name # "" => name = getHostCPUNameForARM(ContentOf(EmptyFile))
    /\ ret # "none" =>
         (ret = "true") = getHostCPUFeaturesARM(EmptyFile, cpu.aarch64, NoFeatures).ret
    /\ \A i \in Returned : cores.rets[i] = computeHostNumPhysicalCores(EmptyFile).ret

----------------------------------------------------------------------------
(* Properties of the name over what the locals Type and Subtype held *)

\* C24: the name getHostCPUName returns is a function of the CPUID and XGETBV
\* register values alone: whatever the locals Type and Subtype held before
\* the decoder ran, the same host gets the same name, and an Intel family 5
\* with a model other than 4 gets "pentium".
C24_NameIsFunctionOfRegisters ==
  name # "" =>
    /\ \A g \in StackGarbage : getHostCPUName(cpu, g[1], g[2]).name = name
    /\ (/\ isCpuIdSupported(cpu) /\ ~NoLeaf1
        /\ HostIsIntel /\ HostBrand = 0 /\ HostFamily = 5 /\ HostModel # 4)
         => name = "pentium"

\* C25: no call of getHostCPUName ends in one of the three
\* llvm_unreachable("Unexpected subtype!") sites, for any vendor, family,
\* model, brand id and feature set.
C25_NoUnexpectedSubtype == name # Unreachable

----------------------------------------------------------------------------
(* The two x86 feature decoders against each other *)

\* the features both decoders report: bit of the bitmask, key of the map
SharedFeatures ==
  {<<FEATURE_CMOV, "cmov">>, <<FEATURE_MMX, "mmx">>, <<FEATURE_SSE, "sse">>,
   <<FEATURE_SSE2, "sse2">>, <<FEATURE_SSE3, "sse3">>, <<FEATURE_SSSE3, "ssse3">>,
   <<FEATURE_SSE4_1, "sse4.1">>, <<FEATURE_SSE4_2, "sse4.2">>,
   <<FEATURE_POPCNT, "popcnt">>, <<FEATURE_AES, "aes">>,
   <<FEATURE_PCLMUL, "pclmul">>, <<FEATURE_MOVBE, "movbe">>,
   <<FEATURE_AVX, "avx">>, <<FEATURE_AVX2, "avx2">>, <<FEATURE_FMA, "fma">>,
   <<FEATURE_BMI, "bmi">>, <<FEATURE_BMI2, "bmi2">>, <<FEATURE_ADX, "adx">>,
   <<FEATURE_CLFLUSHOPT, "clflushopt">>, <<FEATURE_SHA, "sha">>,
   <<FEATURE_SSE4_A, "sse4a">>, <<FEATURE_XOP, "xop">>, <<FEATURE_FMA4, "fma4">>,
   <<FEATURE_AVX512F, "avx512f">>, <<FEATURE_AVX512DQ, "avx512dq">>,
   <<FEATURE_AVX512IFMA, "avx512ifma">>, <<FEATURE_AVX512PF, "avx512pf">>,
   <<FEATURE_AVX512ER, "avx512er">>, <<FEATURE_AVX512CD, "avx512cd">>,
   <<FEATURE_AVX512BW, "avx512bw">>, <<FEATURE_AVX512VL, "avx512vl">>,
   <<FEATURE_AVX512VBMI, "avx512vbmi">>,
   <<FEATURE_AVX512VPOPCNTDQ, "avx512vpopcntdq">>}
\* the bit of feature f in the bitmask getAvailableFeatures returned
AvailHas(f) ==
  IF f < 32 THEN f \in avail.Features ELSE (f - 32) \in avail.Features2

\* C26: once both decoders have run on a host, every feature both report has
\* the same truth value in the bitmask of getAvailableFeatures as in the map
\* of getHostCPUFeatures.
C26_DecodersAgree ==
  (avail.called /\ ret = "true") =>
    \A p \in SharedFeatures : AvailHas(p[1]) <=> FeatureMap[p[2]]
============================================================================
